---- MODULE Spec2Model ----
(***************************************************************************)
(* Model of the Publix AI ML service (src/ml_service/app): the forecast    *)
(* endpoints of main.py, the training entry point of train.py and the      *)
(* feature schema of features.py.                                          *)
(*                                                                         *)
(* Conventions                                                             *)
(*   - Optional[x] is a set with at most one element: {} is None.          *)
(*   - A float is an exact rational <<n, d>> with d > 0 in lowest terms.   *)
(*   - A str is a tuple of one-character strings, so that str.strip and    *)
(*     Python's string order are computed, not assumed.                    *)
(*   - A date is <<year, month, day>>; a datetime is [date, tod] with tod  *)
(*     the wall-clock minutes since midnight in APP_TZ.                    *)
(***************************************************************************)
EXTENDS Integers, Sequences, FiniteSets, TLC

\* ------------------------------------------------------------------------
\* Rational arithmetic (Python floats, taken exactly)
\* ------------------------------------------------------------------------

Abs(x) == IF x < 0 THEN -x ELSE x

RECURSIVE GCD(_, _)
GCD(a, b) == IF b = 0 THEN a ELSE GCD(b, a % b)

Rat(n, d) ==
    LET s == IF d < 0 THEN -1 ELSE 1
        g == GCD(Abs(n), Abs(d))
    IN  <<(s * n) \div g, (s * d) \div g>>

R0 == <<0, 1>>
R1 == <<1, 1>>
RInt(n) == <<n, 1>>

RAdd(a, b) == Rat(a[1] * b[2] + b[1] * a[2], a[2] * b[2])
RNeg(a) == <<-a[1], a[2]>>
RSub(a, b) == RAdd(a, RNeg(b))

\* Products cancel crosswise first, so that no intermediate value is larger
\* than the result.
RMul(a, b) ==
    LET g1 == GCD(Abs(a[1]), b[2])
        g2 == GCD(Abs(b[1]), a[2])
    IN  Rat((a[1] \div g1) * (b[1] \div g2), (a[2] \div g2) * (b[2] \div g1))

RDiv(a, b) == RMul(a, Rat(b[2], b[1]))

\* a/b < c/d for b, d > 0, by comparing the continued fractions: no product
\* is formed, so the comparison is exact for every operand.
RECURSIVE FracLt(_, _, _, _)
FracLt(a, b, c, d) ==
    LET qa == a \div b
        qc == c \div d
        ra == a % b
        rc == c % d
    IN  IF qa # qc THEN qa < qc
        ELSE IF rc = 0 THEN FALSE
        ELSE IF ra = 0 THEN TRUE
        ELSE FracLt(d, rc, b, ra)

RLt(a, b) == FracLt(a[1], a[2], b[1], b[2])
RLe(a, b) == ~RLt(b, a)
RMax(a, b) == IF RLt(a, b) THEN b ELSE a
RMin(a, b) == IF RLt(b, a) THEN b ELSE a

\* numpy.round / Python round to 3 decimals (round half to even), as the
\* number of thousandths.
round3(x) ==
    LET n == x[1] * 1000
        q == n \div x[2]
        r2 == 2 * (n % x[2])
    IN  IF r2 < x[2] THEN q
        ELSE IF r2 > x[2] THEN q + 1
        ELSE IF q % 2 = 0 THEN q ELSE q + 1

\* ------------------------------------------------------------------------
\* Strings: product names
\* ------------------------------------------------------------------------

\* Code points of the characters product names are built from.
Ord(c) == CASE c = " " -> 32 [] c = "A" -> 65 [] c = "B" -> 66 [] c = "N" -> 78

RECURSIVE lstrip(_)
lstrip(s) == IF s # <<>> /\ Head(s) = " " THEN lstrip(Tail(s)) ELSE s

RECURSIVE rstrip(_)
rstrip(s) ==
    IF s # <<>> /\ s[Len(s)] = " " THEN rstrip(SubSeq(s, 1, Len(s) - 1)) ELSE s

\* str.strip()
strip(s) == rstrip(lstrip(s))

\* Python's order on str: lexicographic by code point.
RECURSIVE StrLt(_, _)
StrLt(s, t) ==
    IF t = <<>> THEN FALSE
    ELSE IF s = <<>> THEN TRUE
    ELSE IF Ord(Head(s)) # Ord(Head(t)) THEN Ord(Head(s)) < Ord(Head(t))
    ELSE StrLt(Tail(s), Tail(t))

\* sorted(set_of_names): the ascending list of the names of S.
RECURSIVE sorted(_)
sorted(S) ==
    IF S = {} THEN <<>>
    ELSE LET m == CHOOSE x \in S : \A y \in S \ {x} : StrLt(x, y)
         IN  <<m>> \o sorted(S \ {m})

\* ------------------------------------------------------------------------
\* Dates and datetimes
\* ------------------------------------------------------------------------

DateLe(a, b) ==
    \/ a[1] < b[1]
    \/ a[1] = b[1] /\ a[2] < b[2]
    \/ a[1] = b[1] /\ a[2] = b[2] /\ a[3] <= b[3]

DateLt(a, b) == DateLe(a, b) /\ a # b

\* datetime comparison
DtLe(a, b) == DateLt(a.date, b.date) \/ (a.date = b.date /\ a.tod <= b.tod)

SEED_START == <<2015, 10, 1>>
SEED_END == <<2024, 10, 31>>

\* ------------------------------------------------------------------------
\* Time-of-day helper
\* ------------------------------------------------------------------------

\* now.replace(hour=h, minute=0, second=0, microsecond=0): the date of `now`
\* is kept.
replace_hour(now, h) == [date |-> now.date, tod |-> h * 60]

\* (a - b).total_seconds() for two datetimes of the same calendar date
total_seconds(a, b) == (a.tod - b.tod) * 60

\* _day_fraction with the two early returns in the other order.
_day_fraction_close_first(now, open_hour, close_hour) ==
    LET start == replace_hour(now, open_hour)
        end == replace_hour(now, close_hour)
        span == total_seconds(end, start)
    IN  IF DtLe(end, now) THEN R1
        ELSE IF DtLe(now, start) THEN R0
        ELSE Rat(total_seconds(now, start), IF span < 1 THEN 1 ELSE span)

_day_fraction(now, open_hour, close_hour) ==
    LET start == replace_hour(now, open_hour)
        end == replace_hour(now, close_hour)
        span == total_seconds(end, start)
    IN  IF DtLe(now, start) THEN R0
        ELSE IF DtLe(end, now) THEN R1
        ELSE Rat(total_seconds(now, start), IF span < 1 THEN 1 ELSE span)

\* ------------------------------------------------------------------------
\* Feature schema
\* ------------------------------------------------------------------------

\* features.py
features_CAT_COLS == <<"product_name">>

NUM_COLS_CALENDAR ==
    <<"year", "month", "day", "dow", "doy", "is_weekend", "days_to_halloween">>

NUM_COLS_DISCOUNT ==
    <<"has_active_discount", "discount_percent", "avg_discount_effectiveness">>

NUM_COLS_BASKET ==
    <<"basket_association_count", "top_basket_confidence", "avg_basket_confidence">>

features_NUM_COLS == NUM_COLS_CALENDAR \o NUM_COLS_DISCOUNT \o NUM_COLS_BASKET

\* main.py: its own lists, not the ones of features.py
main_CAT_COLS == <<"product_name">>

main_NUM_COLS ==
    <<"year", "month", "day", "dow", "doy", "is_weekend", "days_to_halloween">>

Range(s) == {s[i] : i \in 1..Len(s)}

\* The columns of the frame calendar_grid returns.
calendar_grid_columns == <<"product_name", "date">> \o features_NUM_COLS

\* ------------------------------------------------------------------------
\* Intraday blend, one row of the frame (main.py, ml_forecast_intraday)
\* ------------------------------------------------------------------------

INTRADAY_WEIGHT_ACCEL == <<5, 4>>
INTRADAY_MIN_FRAC == <<1, 1000000>>
eps == <<1, 1000000000>>

\* frac = max(0.0, min(1.0, float(frac)))
clamp_frac(frac) == RMax(R0, RMin(R1, frac))

eff_frac(frac) == RMax(frac, INTRADAY_MIN_FRAC)

extrapolated(partial_units, frac) == RDiv(partial_units, eff_frac(frac))

\* w = min(1.0, max(0.0, frac * INTRADAY_WEIGHT_ACCEL))
w(frac) == RMin(R1, RMax(R0, RMul(frac, INTRADAY_WEIGHT_ACCEL)))

blend(model_pred, partial_units, frac) ==
    RAdd(RMul(RSub(R1, w(frac)), model_pred),
         RMul(w(frac), extrapolated(partial_units, frac)))

\* The blend without line 470.
floor_dropped(eod, partial_units) == eod

\* df["eod_units"] = np.maximum(df["eod_units"].values, df["partial_units"].values)
floor_observed(eod, partial_units) == RMax(eod, partial_units)

eod_units(model_pred, partial_units, frac) ==
    floor_observed(blend(model_pred, partial_units, frac), partial_units)

\* model_share = ((1.0 - w) * model_pred) / np.maximum(eod_units, eps), kept
\* as its numerator and its denominator (> 0).
model_share_num(model_pred, frac) == RMul(RSub(R1, w(frac)), model_pred)

model_share_den(model_pred, partial_units, frac) ==
    RMax(eod_units(model_pred, partial_units, frac), eps)

\* np.clip(num / den, 0.0, 100.0): a percentage where a share is meant.
clip_percent(num, den) ==
    IF RLe(num, R0) THEN R0
    ELSE IF RLe(RMul(RInt(100), den), num) THEN RInt(100)
    ELSE RDiv(num, den)

\* np.clip(num / den, 0.0, 1.0) for den > 0: the quotient is only formed
\* where it lies inside the interval.
clip01(num, den) ==
    IF RLe(num, R0) THEN R0
    ELSE IF RLe(den, num) THEN R1
    ELSE RDiv(num, den)

\* The confidence column: NaN ({}) when there is no base confidence.
confidence(base_conf, model_pred, partial_units, frac) ==
    {clip01(RMul(b, model_share_num(model_pred, frac)),
            model_share_den(model_pred, partial_units, frac)) : b \in base_conf}

\* ------------------------------------------------------------------------
\* State
\* ------------------------------------------------------------------------

VARIABLES
    db,         \* public.sales: a set of rows
    files,      \* THIS_DIR: path -> Optional content
    _models,    \* main._models: mode -> Optional model object
    runs,       \* number of training runs that have published artifacts
    resp,       \* the HTTP response of the last request
    call,       \* the last request's handler-local values
    probe       \* arguments and result of a helper applied on its own

vars == <<db, files, _models, runs, resp, call, probe>>

SEED_MODEL_PATH == "history_seed.joblib"
LIVE_MODEL_PATH == "model_live.joblib"
SEED_META_PATH == "history_seed.meta.json"
LIVE_META_PATH == "model_live.meta.json"

Paths == {SEED_MODEL_PATH, LIVE_MODEL_PATH, SEED_META_PATH, LIVE_META_PATH}
Modes == {"seed", "live"}

\* Path.with_suffix(".meta.json") on a model path
with_suffix_meta(path) ==
    IF path = SEED_MODEL_PATH THEN SEED_META_PATH ELSE LIVE_META_PATH

\* ------------------------------------------------------------------------
\* Database helpers (main.py)
\* ------------------------------------------------------------------------

RECURSIVE SumUnits(_)
SumUnits(rows) ==
    IF rows = {} THEN 0
    ELSE LET r == CHOOSE x \in rows : TRUE
         IN  r.units + SumUnits(rows \ {r})

\* WHERE EXTRACT(MONTH FROM date) = 10 AND date >= :start AND date <= :end
oct_rows(table, start, end) ==
    {r \in table : r.date[2] = 10 /\ DateLe(start, r.date) /\ DateLe(r.date, end)}

\* The names _distinct_products returns (it raises 404 when there is none):
\* stripped, blanks dropped, unique.
_distinct_products(table, end_date) ==
    {strip(r.product_name) : r \in oct_rows(table, SEED_START, end_date)} \ {<<>>}

\* SELECT MAX(created_at) ... WHERE date = :d
_latest_created_at(table, d) ==
    LET rows == {r \in table : r.date = d}
    IN  {r.created_at : r \in {x \in rows :
                                 \A y \in rows : DtLe(y.created_at, x.created_at)}}

\* The query without its cutoff: every row of the date is summed.
_partials_for_date_all_day(table, d, as_of) ==
    LET rows == {r \in table : r.date = d}
    IN  {[key |-> k, product_name |-> strip(k),
          partial_units |-> RInt(SumUnits({r \in rows : r.product_name = k}))]
            : k \in {r.product_name : r \in rows}}

\* One row per SQL group (GROUP BY the stored product_name); the names are
\* stripped after the grouping.  `key` is the group's stored name.
_partials_for_date(table, d, as_of) ==
    LET rows == {r \in table : r.date = d /\ DtLe(r.created_at, as_of)}
    IN  {[key |-> k, product_name |-> strip(k),
          partial_units |-> RInt(SumUnits({r \in rows : r.product_name = k}))]
            : k \in {r.product_name : r \in rows}}

\* ------------------------------------------------------------------------
\* Training (train.py)
\* ------------------------------------------------------------------------

\* _load_oct_history: the (product_name, date) groups of the daily totals (it
\* raises ValueError when the window holds no row).
_load_oct_history(table, end_date) ==
    {<<strip(r.product_name), r.date>> : r \in oct_rows(table, SEED_START, end_date)}

\* int(n * 0.8), int(n * 0.60)
n_train_of(n) ==
    IF n < 10 THEN (IF (n * 8) \div 10 < 1 THEN 1 ELSE (n * 8) \div 10)
    ELSE (n * 6) \div 10

\* _time_split: the train parts a sort by date allows (rows of one date may
\* fall on either side of the cut).
_time_split_train(daily) ==
    {T \in SUBSET daily :
        /\ Cardinality(T) = n_train_of(Cardinality(daily))
        /\ \A a \in T, b \in daily \ T : DateLe(a[2], b[2])}

\* df.sort_values("date"): the orders of the rows with dates that never
\* decrease.  The sort is not stable, rows of one date come in any order.
RECURSIVE sort_values_date(_)
sort_values_date(rows) ==
    IF rows = {} THEN {<<>>}
    ELSE UNION {{<<r>> \o rest : rest \in sort_values_date(rows \ {r})}
                  : r \in {x \in rows : \A z \in rows : DateLe(x.date, z.date)}}

\* df.iloc[a:b], a and b counted from 0, b excluded.
iloc(df, a, b) == SubSeq(df, a + 1, IF b < Len(df) THEN b ELSE Len(df))

\* The three slices _time_split cuts from the frame it is given.  The
\* products n * 0.8, n * 0.60 and n * 0.20 of the doubles have the integer
\* part of 8n/10, 6n/10 and 2n/10 for every n below 2,000,000.
time_split_slices(df) ==
    LET n == Len(df)
        n_small == IF (n * 8) \div 10 < 1 THEN 1 ELSE (n * 8) \div 10
        n_train == (n * 6) \div 10
        n_valid == (n * 2) \div 10
    IN  IF n < 10
        THEN [train |-> iloc(df, 0, n_small), valid |-> iloc(df, n_small, n),
              test |-> <<>>]
        ELSE [train |-> iloc(df, 0, n_train),
              valid |-> iloc(df, n_train, n_train + n_valid),
              test |-> iloc(df, n_train + n_valid, n)]

\* _time_split without the sort: the slices are cut in the order of the input.
_time_split_unsorted(df_xy) == {time_split_slices(df_xy)}

\* _time_split(df_xy): the (train, valid, test) it can return.
_time_split(df_xy) == {time_split_slices(df) : df \in sort_values_date(Range(df_xy))}

\* The fitted pipeline: the columns the ColumnTransformer was fitted on and
\* the categories of its OneHotEncoder.
fitted_pipeline(run, cat_cols, num_cols, train, regressor) ==
    [run |-> run,
     feature_names_in |-> cat_cols \o num_cols,
     categories |-> {x[1] : x \in train},
     regressor |-> regressor]

\* The metadata run_training writes.
training_meta(run, mode, daily, valid_mape) ==
    [run |-> run,
     mode |-> mode,
     names |-> {x[1] : x \in daily},
     mape |-> valid_mape,
     trainedAt |-> run]

model_path_of(mode) == IF mode = "seed" THEN SEED_MODEL_PATH ELSE LIVE_MODEL_PATH
meta_path_of(mode) == IF mode = "seed" THEN SEED_META_PATH ELSE LIVE_META_PATH

\* ------------------------------------------------------------------------
\* Model loading and selection (main.py)
\* ------------------------------------------------------------------------

\* joblib.load of an existing file, None when the path does not exist
_load_model(fs, path) == fs[path]

_load_meta(fs, path) == fs[with_suffix_meta(path)]

_valid_confidence_from_meta(meta) ==
    {LET m == IF RLt(R1, x.mape) THEN RDiv(x.mape, RInt(100)) ELSE x.mape
     IN  RMax(R0, RMin(R1, RSub(R1, m))) : x \in meta}

_ensure_models_loaded(cache, fs) ==
    [seed |-> IF cache.seed = {} THEN _load_model(fs, SEED_MODEL_PATH) ELSE cache.seed,
     live |-> IF cache.live = {} THEN _load_model(fs, LIVE_MODEL_PATH) ELSE cache.live]

\* A hot-reload that reads both artifacts again.
hot_reload_all(cache, fs, mode) ==
    [seed |-> _load_model(fs, SEED_MODEL_PATH), live |-> _load_model(fs, LIVE_MODEL_PATH)]

\* The hot-reload of ml_train: _models[mode] = _load_model(path of mode)
hot_reload(cache, fs, mode) ==
    [cache EXCEPT ![mode] = _load_model(fs, model_path_of(mode))]

\* _select_model with the fallback of mode=live applied to mode=seed as well.
_select_model_either(cache, fs, mode) ==
    LET first == IF mode = "live" THEN cache.live ELSE cache.seed
        other == IF mode = "live" THEN cache.seed ELSE cache.live
        mode_used == IF first # {} THEN mode
                     ELSE IF mode = "live" THEN "seed" ELSE "live"
        path == IF mode_used = "live" THEN LIVE_MODEL_PATH ELSE SEED_MODEL_PATH
    IN  [found |-> first # {} \/ other # {}, mode_used |-> mode_used,
         model |-> IF first # {} THEN first ELSE other,
         path |-> path, meta |-> _load_meta(fs, path)]

\* _select_model on the cache as _ensure_models_loaded left it.  found is
\* FALSE where the code raises 404.
_select_model(cache, fs, mode) ==
    IF mode = "live"
    THEN LET model == IF cache.live # {} THEN cache.live ELSE cache.seed
             mode_used == IF cache.live # {} THEN "live" ELSE "seed"
             path == IF mode_used = "live" THEN LIVE_MODEL_PATH ELSE SEED_MODEL_PATH
         IN  [found |-> model # {}, mode_used |-> mode_used, model |-> model,
              path |-> path, meta |-> _load_meta(fs, path)]
    ELSE [found |-> cache.seed # {}, mode_used |-> "seed", model |-> cache.seed,
          path |-> SEED_MODEL_PATH, meta |-> _load_meta(fs, SEED_MODEL_PATH)]

\* _seed_products_from_model: the categories of the fitted encoder
_seed_products_from_model(model) == model.categories

\* ------------------------------------------------------------------------
\* Inference frame and prediction (features.py calendar_grid, main.py)
\* ------------------------------------------------------------------------

IsLeap(y) == (y % 4 = 0 /\ y % 100 # 0) \/ y % 400 = 0

DaysInMonth(y, m) ==
    IF m = 2 THEN (IF IsLeap(y) THEN 29 ELSE 28)
    ELSE IF m \in {4, 6, 9, 11} THEN 30 ELSE 31

next_day(d) ==
    IF d[3] < DaysInMonth(d[1], d[2]) THEN <<d[1], d[2], d[3] + 1>>
    ELSE IF d[2] < 12 THEN <<d[1], d[2] + 1, 1>>
    ELSE <<d[1] + 1, 1, 1>>

\* pd.date_range(start, end, freq="D"): empty when end < start
RECURSIVE _to_local_date_range(_, _)
_to_local_date_range(start, end) ==
    IF DateLt(end, start) THEN {}
    ELSE {start} \cup _to_local_date_range(next_day(start), end)

\* The cleaning without the trim.
_clean_products_untrimmed(products) == products \ {<<>>}

_clean_products(products) == {strip(p) : p \in products} \ {<<>>}

\* The (product_name, date) rows of the grid; calendar_grid raises ValueError
\* when it would be empty.
calendar_grid(products, start, end) ==
    _clean_products(products) \X _to_local_date_range(start, end)

\* ------------------------------------------------------------------------
\* Calendar fields and enrichment of a frame (features.py)
\* ------------------------------------------------------------------------

\* date.timetuple().tm_yday
RECURSIVE DaysBeforeMonth(_, _)
DaysBeforeMonth(y, m) ==
    IF m = 1 THEN 0 ELSE DaysBeforeMonth(y, m - 1) + DaysInMonth(y, m - 1)

dayofyear(d) == DaysBeforeMonth(d[1], d[2]) + d[3]

\* date.toordinal(): days since 0001-01-01, which is day 1
toordinal(d) ==
    LET y == d[1] - 1
    IN  365 * y + (y \div 4) - (y \div 100) + (y \div 400) + dayofyear(d)

\* date.weekday(): Monday is 0, Sunday is 6
weekday(d) == (toordinal(d) + 6) % 7

\* The seven calendar columns of one date.
calendar_fields(d) ==
    [year |-> d[1], month |-> d[2], day |-> d[3], dow |-> weekday(d),
     doy |-> dayofyear(d),
     is_weekend |-> IF weekday(d) >= 5 THEN 1 ELSE 0,
     days_to_halloween |-> toordinal(<<d[1], 10, 31>>) - toordinal(d)]

\* The engine a caller holds is None ({}), or an engine on which each of the
\* three queries either returns or raises.
Engines ==
    [discounts_ok : BOOLEAN, effectiveness_ok : BOOLEAN, basket_ok : BOOLEAN]

\* An engine on which every query returns, and one on which every query
\* raises.
EngineUp == [discounts_ok |-> TRUE, effectiveness_ok |-> TRUE, basket_ok |-> TRUE]
EngineDown == [discounts_ok |-> FALSE, effectiveness_ok |-> FALSE, basket_ok |-> FALSE]

\* The three tables without a row.
NoTables == [discounts |-> {}, effectiveness |-> {}, basket |-> {}]

\* SELECT ... FROM public.discounts WHERE start_date <= :max_date
\*                                     AND end_date >= :min_date
df_discounts(df, discounts) ==
    LET min_date == CHOOSE d \in {r.date : r \in df} : \A r \in df : DateLe(d, r.date)
        max_date == CHOOSE d \in {r.date : r \in df} : \A r \in df : DateLe(r.date, d)
    IN  {x \in discounts : DateLe(x.start_date, max_date)
                           /\ DateLe(min_date, x.end_date)}

\* The filter with the last day of a window left out.
df_active_half_open(r, windows) ==
    {x \in windows : /\ x.product_name = r.product_name
                     /\ DateLe(x.start_date, r.date)
                     /\ DateLt(r.date, x.end_date)}

\* The rows of the cross join kept for one row of df: same product, and
\* start_date <= date <= end_date.
df_active(r, windows) ==
    {x \in windows : /\ x.product_name = r.product_name
                     /\ DateLe(x.start_date, r.date)
                     /\ DateLe(r.date, x.end_date)}

MaxOf(S) == CHOOSE x \in S : \A y \in S : y <= x

\* SUM(sales_lift_percent) over a set of effectiveness records
RECURSIVE SumLift(_)
SumLift(S) ==
    IF S = {} THEN 0
    ELSE LET x == CHOOSE y \in S : TRUE
         IN  x.sales_lift_percent + SumLift(S \ {x})

\* SUM(confidence_score) over a set of basket records
RECURSIVE SumConfidence(_)
SumConfidence(S) ==
    IF S = {} THEN R0
    ELSE LET x == CHOOSE y \in S : TRUE
         IN  RAdd(x.confidence_score, SumConfidence(S \ {x}))

\* The aggregate without its WHERE discount_percent > 0.
df_effectiveness_with_zero(df, effectiveness) ==
    LET kept == {x \in effectiveness :
                    x.product_name \in {r.product_name : r \in df}}
    IN  {[product_name |-> k[1], discount_percent |-> k[2],
          avg_lift |-> LET g == {x \in kept : x.product_name = k[1]
                                             /\ x.discount_percent = k[2]}
                       IN  Rat(SumLift(g), Cardinality(g))]
            : k \in {<<x.product_name, x.discount_percent>> : x \in kept}}

\* SELECT product_name, discount_percent, AVG(sales_lift_percent) AS avg_lift
\* FROM public.discount_effectiveness WHERE product_name IN (...)
\* AND discount_percent > 0 GROUP BY product_name, discount_percent
df_effectiveness(df, effectiveness) ==
    LET kept == {x \in effectiveness :
                    /\ x.product_name \in {r.product_name : r \in df}
                    /\ x.discount_percent > 0}
    IN  {[product_name |-> k[1], discount_percent |-> k[2],
          avg_lift |-> LET g == {x \in kept : x.product_name = k[1]
                                             /\ x.discount_percent = k[2]}
                       IN  Rat(SumLift(g), Cardinality(g))]
            : k \in {<<x.product_name, x.discount_percent>> : x \in kept}}

\* The queries _enrich_with_discount_features sends.
discount_queries(df, engine, discounts) ==
    IF engine = {} THEN {}
    ELSE LET e == CHOOSE x \in engine : TRUE
         IN  IF ~e.discounts_ok THEN {"discounts"}
             ELSE IF df_discounts(df, discounts) = {} THEN {"discounts"}
             ELSE {"discounts", "effectiveness"}

\* _enrich_with_discount_features(df, engine): the three discount columns of
\* every row.  An exception leaves the columns as they are at that point.
_enrich_with_discount_features(df, engine, discounts, effectiveness) ==
    LET defaults(r) == [has_active_discount |-> 0, discount_percent |-> 0,
                        avg_discount_effectiveness |-> R0]
        e == CHOOSE x \in engine : TRUE
        windows == df_discounts(df, discounts)
        matched(r) ==
            IF df_active(r, windows) = {} THEN defaults(r)
            ELSE [has_active_discount |-> 1,
                  discount_percent |->
                      MaxOf({x.discount_percent : x \in df_active(r, windows)}),
                  avg_discount_effectiveness |-> R0]
        eff == df_effectiveness(df, effectiveness)
        looked_up(r) ==
            LET hit == {x \in eff : /\ x.product_name = r.product_name
                                    /\ x.discount_percent = matched(r).discount_percent}
            IN  [matched(r) EXCEPT !.avg_discount_effectiveness =
                    IF hit = {} THEN R0 ELSE (CHOOSE x \in hit : TRUE).avg_lift]
        cols(r) ==
            IF engine = {} THEN defaults(r)
            ELSE IF ~e.discounts_ok THEN defaults(r)
            ELSE IF windows = {} THEN defaults(r)
            ELSE IF ~e.effectiveness_ok THEN matched(r)
            ELSE looked_up(r)
    IN  [r \in df |-> cols(r)]

\* The aggregate with MIN(confidence_score) in the place of MAX.
df_basket_least(df, basket) ==
    LET kept == {x \in basket : x.primary_product \in {r.product_name : r \in df}}
    IN  {[product_name |-> n,
          association_count |-> Cardinality({x \in kept : x.primary_product = n}),
          top_confidence |->
              LET g == {x.confidence_score : x \in {y \in kept : y.primary_product = n}}
              IN  CHOOSE c \in g : \A c2 \in g : RLe(c, c2),
          avg_confidence |->
              LET g == {x \in kept : x.primary_product = n}
              IN  RDiv(SumConfidence(g), RInt(Cardinality(g)))]
            : n \in {x.primary_product : x \in kept}}

\* SELECT primary_product AS product_name, COUNT(*), MAX(confidence_score),
\* AVG(confidence_score) FROM public.basket_analysis
\* WHERE primary_product IN (...) GROUP BY primary_product
df_basket(df, basket) ==
    LET kept == {x \in basket : x.primary_product \in {r.product_name : r \in df}}
    IN  {[product_name |-> n,
          association_count |-> Cardinality({x \in kept : x.primary_product = n}),
          top_confidence |->
              LET g == {x.confidence_score : x \in {y \in kept : y.primary_product = n}}
              IN  CHOOSE c \in g : \A c2 \in g : RLe(c2, c),
          avg_confidence |->
              LET g == {x \in kept : x.primary_product = n}
              IN  RDiv(SumConfidence(g), RInt(Cardinality(g)))]
            : n \in {x.primary_product : x \in kept}}

\* _enrich_with_basket_features(df, engine): the three basket columns of
\* every row.
_enrich_with_basket_features(df, engine, basket) ==
    LET defaults(r) == [basket_association_count |-> 0, top_basket_confidence |-> R0,
                        avg_basket_confidence |-> R0]
        e == CHOOSE x \in engine : TRUE
        found == df_basket(df, basket)
        merged(r) ==
            LET hit == {x \in found : x.product_name = r.product_name}
            IN  IF hit = {} THEN defaults(r)
                ELSE LET x == CHOOSE y \in hit : TRUE
                     IN  [basket_association_count |-> x.association_count,
                          top_basket_confidence |-> x.top_confidence,
                          avg_basket_confidence |-> x.avg_confidence]
        cols(r) ==
            IF engine = {} THEN defaults(r)
            ELSE IF ~e.basket_ok THEN defaults(r)
            ELSE merged(r)
    IN  [r \in df |-> cols(r)]

\* pd.to_numeric(errors="coerce") of one raw units value: an int or a float
\* is itself, a string of one digit is that digit, any other string and a
\* missing value are NaN (the empty set).
to_numeric(u) ==
    LET digits == <<"0", "1", "2", "3", "4", "5", "6", "7", "8", "9">>
    IN  IF u.t = "number" THEN {u.v}
        ELSE IF u.t = "str" /\ Len(u.s) = 1
             THEN {RInt(k - 1) : k \in {j \in 1..10 : digits[j] = u.s[1]}}
        ELSE {}

\* .astype(int) of a float: truncation toward zero.
astype_int(x) == IF x[1] >= 0 THEN x[1] \div x[2] ELSE -((-x[1]) \div x[2])

\* to_numeric(errors="coerce").fillna(0).astype(int).clip(lower=0)
normalize_units(u) ==
    LET filled == IF to_numeric(u) = {} THEN R0 ELSE CHOOSE x \in to_numeric(u) : TRUE
    IN  IF astype_int(filled) < 0 THEN 0 ELSE astype_int(filled)

\* pd.to_datetime(errors="raise") raises on a date that is not in the calendar.
to_datetime_raises(d) == ~(d[2] \in 1..12 /\ d[3] \in 1..DaysInMonth(d[1], d[2]))

\* The rows of X and y that make_features builds from the rows of df.
feature_rows(df, engine, tables) ==
    LET keys == {[product_name |-> strip(df[i].product_name), date |-> df[i].date]
                    : i \in 1..Len(df)}
        discount == _enrich_with_discount_features(keys, engine, tables.discounts,
                                                   tables.effectiveness)
        basket == _enrich_with_basket_features(keys, engine, tables.basket)
        key(i) == [product_name |-> strip(df[i].product_name), date |-> df[i].date]
    IN  [X |-> [i \in 1..Len(df) |->
                    [product_name |-> key(i).product_name,
                     calendar |-> calendar_fields(df[i].date),
                     discount |-> discount[key(i)], basket |-> basket[key(i)]]],
         y |-> [i \in 1..Len(df) |-> normalize_units(df[i].units)]]

\* make_features without df = df.copy(): the normalized columns and the
\* feature columns are written to the caller's frame.
make_features_in_place(df, engine, tables) ==
    IF \E i \in 1..Len(df) : to_datetime_raises(df[i].date)
    THEN [raised |-> TRUE, X_columns |-> <<>>, X |-> <<>>, y |-> <<>>,
          df |-> [columns |-> <<"product_name", "date", "units">>,
                  rows |-> [i \in 1..Len(df) |->
                               [df[i] EXCEPT !.product_name = strip(@)]]]]
    ELSE [raised |-> FALSE,
          X_columns |-> features_CAT_COLS \o features_NUM_COLS,
          X |-> feature_rows(df, engine, tables).X,
          y |-> feature_rows(df, engine, tables).y,
          df |-> [columns |-> <<"product_name", "date", "units">> \o features_NUM_COLS,
                  rows |-> [i \in 1..Len(df) |->
                               [product_name |-> strip(df[i].product_name),
                                date |-> df[i].date,
                                units |-> [t |-> "number", s |-> <<>>,
                                           v |-> RInt(normalize_units(df[i].units))]]]]]

\* make_features(df, engine): raised is TRUE where it raises; X and y are
\* the rows of the feature table and of the target; df is the caller's frame
\* after the call.
make_features(df, engine, tables) ==
    IF \E i \in 1..Len(df) : to_datetime_raises(df[i].date)
    THEN [raised |-> TRUE, X_columns |-> <<>>, X |-> <<>>, y |-> <<>>,
          df |-> [columns |-> <<"product_name", "date", "units">>, rows |-> df]]
    ELSE [raised |-> FALSE,
          X_columns |-> features_CAT_COLS \o features_NUM_COLS,
          X |-> feature_rows(df, engine, tables).X,
          y |-> feature_rows(df, engine, tables).y,
          df |-> [columns |-> <<"product_name", "date", "units">>, rows |-> df]]

\* calendar_grid without the test of the date range.
calendar_grid_frame_unchecked_range(products, start, end, engine, tables) ==
    LET names == _clean_products(products)
        dates == _to_local_date_range(start, end)
        grid == {[product_name |-> n, date |-> d] : n \in names, d \in dates}
        discount == _enrich_with_discount_features(grid, engine, tables.discounts,
                                                   tables.effectiveness)
        basket == _enrich_with_basket_features(grid, engine, tables.basket)
    IN  IF names = {}
        THEN [raised |-> TRUE, columns |-> <<>>, frame |-> {}, queries |-> {}]
        ELSE [raised |-> FALSE,
              columns |-> calendar_grid_columns,
              frame |-> {[product_name |-> r.product_name, date |-> r.date,
                          calendar |-> calendar_fields(r.date),
                          discount |-> discount[r], basket |-> basket[r]]
                            : r \in grid},
              queries |-> IF engine = {} THEN {} ELSE {"discounts", "basket"}]

\* calendar_grid(products, start, end, engine): raised is TRUE where it
\* raises ValueError; frame holds one record per row it returns; queries are
\* the enrichment queries it sent.
calendar_grid_frame(products, start, end, engine, tables) ==
    LET names == _clean_products(products)
        dates == _to_local_date_range(start, end)
        grid == {[product_name |-> n, date |-> d] : n \in names, d \in dates}
        discount == _enrich_with_discount_features(grid, engine, tables.discounts,
                                                   tables.effectiveness)
        basket == _enrich_with_basket_features(grid, engine, tables.basket)
    IN  IF names = {} \/ dates = {}
        THEN [raised |-> TRUE, columns |-> <<>>, frame |-> {}, queries |-> {}]
        ELSE [raised |-> FALSE,
              columns |-> calendar_grid_columns,
              frame |-> {[product_name |-> r.product_name, date |-> r.date,
                          calendar |-> calendar_fields(r.date),
                          discount |-> discount[r], basket |-> basket[r]]
                            : r \in grid},
              queries |-> discount_queries(grid, engine, tables.discounts)
                            \cup (IF engine = {} THEN {} ELSE {"basket"})]

\* What a fitted regressor returns for a row of the grid.  The regressor is
\* a black box: these are two functions of the row, one that gives every row
\* the same value, one that returns a negative value for a product.
regressor_predict(regressor, row) ==
    IF regressor = "flat" THEN 2
    ELSE IF row[1] = <<"A">> THEN 3
    ELSE IF row[1] = <<"B">> THEN -1
    ELSE 2

Regressors == {"flat", "skew"}

\* ColumnTransformer.transform raises when a column it was fitted on is not
\* in the frame it is given.
predict_raises(model, X_columns) ==
    ~(Range(model.feature_names_in) \subseteq Range(X_columns))

\* y_hat = np.maximum(0.0, y_hat)
clip_negative(y) == IF y < 0 THEN 0 ELSE y

RECURSIVE SumClipped(_, _)
SumClipped(model, rows) ==
    IF rows = {} THEN 0
    ELSE LET r == CHOOSE x \in rows : TRUE
         IN  clip_negative(regressor_predict(model.regressor, r))
                + SumClipped(model, rows \ {r})

\* groupby("product_name")["y_hat"].sum()
sum_by_product(model, grid) ==
    {[product_name |-> n,
      predicted_units |-> RInt(SumClipped(model, {g \in grid : g[1] = n}))]
        : n \in {g[1] : g \in grid}}

\* DataFrame.sort_values(key, ascending=False) with the default kind
\* "quicksort", which is not stable: every order that is descending in the
\* key is a possible result.  P is a set of <<row, key>> pairs.
RECURSIVE sort_values_desc(_)
sort_values_desc(P) ==
    IF P = {} THEN {<<>>}
    ELSE UNION {{<<m[1]>> \o t : t \in sort_values_desc(P \ {m})}
                  : m \in {x \in P : \A y \in P : RLe(y[2], x[2])}}

head(frame, k) == SubSeq(frame, 1, IF Len(frame) < k THEN Len(frame) ELSE k)

\* _predict_sum_by_product: the frames the sort may return; status 500 where
\* it raises HTTPException or calendar_grid raises.
_predict_sum_by_product(model, start, end, products, engine) ==
    LET grid == calendar_grid(products, start, end)
        df_inf == calendar_grid_frame(products, start, end, engine, NoTables)
        expected == main_CAT_COLS \o main_NUM_COLS
        missing == Range(expected) \ Range(df_inf.columns)
        failed == [status |-> 500, X_columns |-> <<>>, frame |-> <<>>,
                   df_inf |-> df_inf]
    IN  IF df_inf.raised \/ missing # {} THEN {failed}
        ELSE IF predict_raises(model, expected)
        THEN {[status |-> 500, X_columns |-> expected, frame |-> <<>>,
               df_inf |-> df_inf]}
        ELSE {[status |-> 200, X_columns |-> expected, frame |-> f,
               df_inf |-> df_inf]
                : f \in sort_values_desc(
                      {<<r, r.predicted_units>> : r \in sum_by_product(model, grid)})}

\* ------------------------------------------------------------------------
\* Responses
\* ------------------------------------------------------------------------

ML_SECRET == "dev-secret"

NoResponse ==
    [endpoint |-> "", status |-> 0, modeRequested |-> "", modeUsed |-> "",
     topK |-> 0, totalProducts |-> 0, items |-> <<>>, modelPath |-> {},
     trainedAt |-> {}]

NoCall ==
    [selected |-> FALSE, mode |-> "",
     artifact |-> [seed |-> FALSE, live |-> FALSE], mode_used |-> "", model |-> {}, meta |-> {}, base_conf |-> {},
     engine |-> {}, df_inf |-> {}, X_columns |-> <<>>, as_of |-> {}, now |-> {}, frac |-> R0, open_hour |-> 0,
     close_hour |-> 0, df_model |-> {}, df_partials |-> {}, df |-> {}]

\* raise HTTPException(status_code=status)
HTTPException(endpoint, status, mode) ==
    [NoResponse EXCEPT !.endpoint = endpoint, !.status = status,
                       !.modeRequested = mode]

ForecastResponse(endpoint, mode, mode_used, top_k, total, items, sel) ==
    [endpoint |-> endpoint, status |-> 200, modeRequested |-> mode,
     modeUsed |-> mode_used, topK |-> top_k, totalProducts |-> total,
     items |-> items, modelPath |-> {sel.path},
     trainedAt |-> {m.trainedAt : m \in sel.meta}]

artifacts_on_disk(fs) ==
    [seed |-> fs[SEED_MODEL_PATH] # {}, live |-> fs[LIVE_MODEL_PATH] # {}]

\* The handler's locals once _select_model has run.
unselected_call(fs, mode) ==
    [NoCall EXCEPT !.selected = TRUE, !.mode = mode,
                   !.artifact = artifacts_on_disk(fs)]

selected_call(fs, sel, mode) ==
    [unselected_call(fs, mode) EXCEPT
                   !.mode_used = sel.mode_used, !.model = sel.model,
                   !.meta = sel.meta,
                   !.base_conf = _valid_confidence_from_meta(sel.meta)]

\* ------------------------------------------------------------------------
\* GET /ml/forecast
\* ------------------------------------------------------------------------

\* The frozen product universe of a seed forecast: metadata names, else the
\* encoder's categories, else the database up to SEED_END.
seed_products(table, model, meta) ==
    LET from_meta == UNION {m.names : m \in meta}
        from_model == IF from_meta # {} THEN from_meta
                      ELSE _seed_products_from_model(model)
    IN  IF from_model # {} THEN from_model
        ELSE _distinct_products(table, SEED_END)

forecast_item(r, base_conf) ==
    [productName |-> r.product_name, predictedUnits |-> r.predicted_units,
     confidence |-> {round3(b) : b \in base_conf}]

\* The outcomes of ml_forecast after _select_model returned sel.
ml_forecast_selected(table, cache, fs, sel, start_d, end_d, top_k, mode, engine) ==
    LET model == CHOOSE m \in sel.model : TRUE
        products == IF sel.mode_used = "seed"
                    THEN seed_products(table, model, sel.meta)
                    ELSE _distinct_products(table, end_d)
        c0 == [selected_call(fs, sel, mode) EXCEPT !.engine = engine]
    IN  IF products = {}
        THEN {[resp |-> HTTPException("forecast", 404, mode), call |-> c0]}
        ELSE {IF o.status # 200
              THEN [resp |-> HTTPException("forecast", o.status, mode),
                    call |-> [c0 EXCEPT !.X_columns = o.X_columns,
                                        !.df_inf = {o.df_inf}]]
              ELSE [resp |-> ForecastResponse(
                                "forecast", mode, sel.mode_used, top_k, Len(o.frame),
                                [i \in 1..Len(head(o.frame, top_k)) |->
                                    forecast_item(o.frame[i], c0.base_conf)],
                                sel),
                    call |-> [c0 EXCEPT !.X_columns = o.X_columns,
                                        !.df_inf = {o.df_inf},
                                        !.df_model = Range(o.frame)]]
                : o \in _predict_sum_by_product(model, start_d, end_d, products,
                                                engine)}

ml_forecast(start_d, end_d, top_k, mode, x_ml_secret, engine) ==
    IF x_ml_secret # ML_SECRET
    THEN /\ resp' = HTTPException("forecast", 401, mode)
         /\ call' = NoCall
         /\ UNCHANGED <<db, files, _models, runs, probe>>
    ELSE IF DateLt(end_d, start_d)
    THEN /\ resp' = HTTPException("forecast", 400, mode)
         /\ call' = NoCall
         /\ UNCHANGED <<db, files, _models, runs, probe>>
    ELSE LET cache == _ensure_models_loaded(_models, files)
             sel == _select_model(cache, files, mode)
         IN  /\ _models' = cache
             /\ UNCHANGED <<db, files, runs, probe>>
             /\ IF ~sel.found
                THEN /\ resp' = HTTPException("forecast", 404, mode)
                     /\ call' = unselected_call(files, mode)
                ELSE \E o \in ml_forecast_selected(db, cache, files, sel, start_d,
                                                   end_d, top_k, mode, engine) :
                        /\ resp' = o.resp
                        /\ call' = o.call

\* ------------------------------------------------------------------------
\* GET /ml/forecast_intraday
\* ------------------------------------------------------------------------

\* Resolve "now": the override, else the latest created_at of the target
\* date, else the opening time of the target date.
resolve_now(table, target, open_hour, as_of) ==
    IF as_of # {} THEN CHOOSE t \in as_of : TRUE
    ELSE LET latest == _latest_created_at(table, target)
         IN  IF latest # {} THEN CHOOSE t \in latest : TRUE
             ELSE [date |-> target, tod |-> open_hour * 60]

\* df = DataFrame(sorted(all_names)).merge(df_model, how="left")
\*        .merge(df_partials, how="left"), the fillna(0.0) and the blend.
\* A left merge yields one row per matching right row, and one row with the
\* missing side filled in when there is none.
blend_frame(df_model, df_partials, frac, base_conf) ==
    LET all_names == {r.product_name : r \in df_model}
                        \cup {r.product_name : r \in df_partials}
        model_pred(n) ==
            IF \E r \in df_model : r.product_name = n
            THEN (CHOOSE r \in df_model : r.product_name = n).predicted_units
            ELSE R0
        right(n) ==
            IF \E r \in df_partials : r.product_name = n
            THEN {[key |-> {r.key}, partial_units |-> r.partial_units]
                    : r \in {x \in df_partials : x.product_name = n}}
            ELSE {[key |-> {}, partial_units |-> R0]}
    IN  UNION {{[product_name |-> n,
                 key |-> p.key,
                 model_pred |-> model_pred(n),
                 partial_units |-> p.partial_units,
                 eod_units |-> eod_units(model_pred(n), p.partial_units, frac),
                 confidence |-> confidence(base_conf, model_pred(n),
                                           p.partial_units, frac)]
                  : p \in right(n)}
                : n \in all_names}

intraday_item(r) ==
    [productName |-> r.product_name, predictedUnits |-> r.eod_units,
     confidence |-> {round3(c) : c \in r.confidence}]

\* The outcomes of ml_forecast_intraday after _select_model returned sel.
ml_forecast_intraday_selected(table, cache, fs, sel, target, top_k, mode, now, frac, engine) ==
    LET model == CHOOSE m \in sel.model : TRUE
        products == _distinct_products(
                        table, IF sel.mode_used = "seed" THEN SEED_END ELSE target)
        c0 == [selected_call(fs, sel, mode) EXCEPT !.now = {now}, !.frac = frac,
                                                   !.engine = engine]
        requested == IF mode = "seed" THEN "seed-intraday" ELSE "live-intraday"
        used == IF sel.mode_used = "seed" THEN "seed-intraday" ELSE "live-intraday"
        df_partials == _partials_for_date(table, target, now)
    IN  IF products = {}
        THEN {[resp |-> HTTPException("intraday", 404, mode), call |-> c0]}
        ELSE UNION {
              IF o.status # 200
              THEN {[resp |-> HTTPException("intraday", o.status, mode),
                     call |-> [c0 EXCEPT !.X_columns = o.X_columns,
                                         !.df_inf = {o.df_inf}]]}
              ELSE LET df == blend_frame(Range(o.frame), df_partials, frac,
                                         c0.base_conf)
                       c1 == [c0 EXCEPT !.X_columns = o.X_columns,
                                        !.df_inf = {o.df_inf},
                                        !.df_model = Range(o.frame),
                                        !.df_partials = df_partials,
                                        !.df = df]
                   IN  {[resp |-> ForecastResponse(
                                    "intraday", requested, used, top_k, Len(df_out),
                                    [i \in 1..Len(head(df_out, top_k)) |->
                                        intraday_item(df_out[i])],
                                    sel),
                         call |-> c1]
                          : df_out \in sort_values_desc(
                                          {<<r, r.eod_units>> : r \in df})}
                : o \in _predict_sum_by_product(model, target, target, products,
                                                engine)}

ml_forecast_intraday(target, top_k, mode, open_hour, close_hour, as_of, x_ml_secret, engine) ==
    IF x_ml_secret # ML_SECRET
    THEN /\ resp' = HTTPException("intraday", 401, mode)
         /\ call' = NoCall
         /\ UNCHANGED <<db, files, _models, runs, probe>>
    ELSE LET now == resolve_now(db, target, open_hour, as_of)
             frac == clamp_frac(_day_fraction(now, open_hour, close_hour))
             cache == _ensure_models_loaded(_models, files)
             sel == _select_model(cache, files, mode)
         IN  /\ _models' = cache
             /\ UNCHANGED <<db, files, runs, probe>>
             /\ IF ~sel.found
                THEN /\ resp' = HTTPException("intraday", 404, mode)
                     /\ call' = [unselected_call(files, mode) EXCEPT
                                   !.as_of = as_of, !.now = {now}, !.frac = frac,
                                   !.open_hour = open_hour,
                                   !.close_hour = close_hour]
                ELSE \E o \in ml_forecast_intraday_selected(
                                  db, cache, files, sel, target, top_k, mode,
                                  now, frac, engine) :
                        /\ resp' = o.resp
                        /\ call' = [o.call EXCEPT !.as_of = as_of,
                                                  !.open_hour = open_hour,
                                                  !.close_hour = close_hour]

\* ------------------------------------------------------------------------
\* POST /ml/train
\* ------------------------------------------------------------------------

MaxRuns == 2

\* run_training(mode) followed by the hot reload of ml_train.  regressor is
\* what the fit produced, valid_mape the validation MAPE it scored, today is
\* date.today().
ml_train(mode, x_ml_secret, regressor, valid_mape, today) ==
    IF x_ml_secret # ML_SECRET
    THEN /\ resp' = HTTPException("train", 401, mode)
         /\ call' = NoCall
         /\ UNCHANGED <<db, files, _models, runs, probe>>
    ELSE LET end_date == IF mode = "seed" THEN SEED_END ELSE today
             daily == _load_oct_history(db, end_date)
         IN  IF daily = {}
             THEN /\ resp' = HTTPException("train", 500, mode)
                  /\ call' = NoCall
                  /\ UNCHANGED <<db, files, _models, runs, probe>>
             ELSE /\ runs < MaxRuns
                  /\ \E train \in _time_split_train(daily) :
                        LET pipe == fitted_pipeline(runs + 1, features_CAT_COLS,
                                                    features_NUM_COLS, train,
                                                    regressor)
                            meta == training_meta(runs + 1, mode, daily, valid_mape)
                            written == [files EXCEPT ![model_path_of(mode)] = {pipe},
                                                     ![meta_path_of(mode)] = {meta}]
                        IN  /\ files' = written
                            /\ _models' = hot_reload(_models, written, mode)
                  /\ runs' = runs + 1
                  /\ resp' = [NoResponse EXCEPT !.endpoint = "train", !.status = 200,
                                !.modeRequested = mode, !.modeUsed = mode,
                                !.modelPath = {model_path_of(mode)},
                                !.trainedAt = {runs + 1}]
                  /\ call' = NoCall
                  /\ UNCHANGED <<db, probe>>

\* ------------------------------------------------------------------------
\* The sales table is written by the store's backend
\* ------------------------------------------------------------------------

MaxSales == 2

\* The rows the table holds when the service starts: two products of the
\* seed window, one stored with a trailing blank.
BaseRows ==
    {[product_name |-> <<"A">>, date |-> <<2024, 10, 30>>, units |-> 4,
      created_at |-> [date |-> <<2024, 10, 30>>, tod |-> 720]],
     [product_name |-> <<"B", " ">>, date |-> <<2024, 10, 31>>, units |-> 2,
      created_at |-> [date |-> <<2024, 10, 31>>, tod |-> 720]]}

\* A row is inserted into public.sales.
AddSale(row) ==
    /\ row \notin db
    /\ Cardinality(db) < Cardinality(BaseRows) + MaxSales
    /\ db' = db \cup {row}
    /\ UNCHANGED <<files, _models, runs, resp, call, probe>>

\* ------------------------------------------------------------------------
\* Artifacts found on disk at start
\* ------------------------------------------------------------------------

\* Artifacts of a training run of the calendar-only schema (the columns
\* main.py selects), trained on BaseRows.
earlier_pipeline(regressor) ==
    fitted_pipeline(
        0, main_CAT_COLS, main_NUM_COLS,
        CHOOSE t \in _time_split_train(_load_oct_history(BaseRows, SEED_END)) : TRUE,
        regressor)

earlier_meta(mode) ==
    training_meta(0, mode, _load_oct_history(BaseRows, SEED_END), <<1, 4>>)

EmptyDir == [p \in Paths |-> {}]

DiskSeed(regressor) ==
    [EmptyDir EXCEPT ![SEED_MODEL_PATH] = {earlier_pipeline(regressor)},
                     ![SEED_META_PATH] = {earlier_meta("seed")}]

DiskSeedNoMeta(regressor) ==
    [EmptyDir EXCEPT ![SEED_MODEL_PATH] = {earlier_pipeline(regressor)}]

DiskLive(regressor) ==
    [EmptyDir EXCEPT ![LIVE_MODEL_PATH] = {earlier_pipeline(regressor)},
                     ![LIVE_META_PATH] = {earlier_meta("live")}]

DiskBoth(regressor) ==
    [DiskSeed(regressor) EXCEPT ![LIVE_MODEL_PATH] = {earlier_pipeline(regressor)},
                                ![LIVE_META_PATH] = {earlier_meta("live")}]

\* ------------------------------------------------------------------------
\* Inputs
\* ------------------------------------------------------------------------

Target == <<2025, 10, 15>>
DayAfter == <<2025, 10, 16>>

At(d, h) == [date |-> d, tod |-> h * 60]

NoProbe == [now |-> At(Target, 0), open_hour |-> 0, close_hour |-> 0,
            applied |-> FALSE, frac |-> R0]

\* A worker handles one request at a time: the response of the last request
\* has been sent.
Idle == resp = NoResponse

Respond ==
    /\ ~Idle
    /\ resp' = NoResponse
    /\ call' = NoCall
    /\ UNCHANGED <<db, files, _models, runs, probe>>

\* ------------------------------------------------------------------------
\* The service: training, both forecasts, and sales arriving
\* ------------------------------------------------------------------------

Init ==
    /\ db = BaseRows
    /\ files \in {EmptyDir} \cup UNION {{DiskSeed(r), DiskSeedNoMeta(r), DiskLive(r),
                                         DiskBoth(r)} : r \in Regressors}
    /\ _models = [seed |-> {}, live |-> {}]
    /\ runs = 0
    /\ resp = NoResponse
    /\ call = NoCall
    /\ probe = NoProbe

\* Sales of the target date, entered in the afternoon: a known product, the
\* same product stored with a leading blank, a product the seed window does
\* not hold; a sale or a return (negative units).  And one entry made before
\* the store opens.
SaleRows ==
    {[product_name |-> n, date |-> Target, units |-> u, created_at |-> At(Target, 15)]
        : n \in {<<"A">>, <<" ", "A">>, <<"N">>}, u \in {-2, 3}}
    \cup {[product_name |-> <<"N">>, date |-> Target, units |-> 3,
           created_at |-> At(Target, 7)]}

Train ==
    /\ Idle
    /\ \/ \E mode \in Modes : ml_train(mode, ML_SECRET, "flat", <<3, 2>>, DayAfter)
       \/ ml_train("seed", "wrong", "flat", <<1, 4>>, DayAfter)

Forecast ==
    /\ Idle
    /\ \/ \E range \in {<<Target, Target>>, <<Target, DayAfter>>, <<DayAfter, Target>>},
             top_k \in {2, 10}, mode \in Modes :
            ml_forecast(range[1], range[2], top_k, mode, ML_SECRET, {EngineUp})
       \/ ml_forecast(Target, Target, 10, "seed", "wrong", {EngineUp})

ForecastIntraday ==
    /\ Idle
    /\ \/ \E top_k \in {2, 10}, mode \in Modes,
             as_of \in {{}, {At(Target, 8)}, {At(Target, 15)}, {At(Target, 21)}} :
            ml_forecast_intraday(Target, top_k, mode, 8, 22, as_of, ML_SECRET, {EngineUp})
       \/ ml_forecast_intraday(Target, 10, "seed", 8, 22, {}, "wrong", {EngineUp})

Sale == Idle /\ \E row \in SaleRows : AddSale(row)

Next == Train \/ Forecast \/ ForecastIntraday \/ Sale \/ Respond

Spec == Init /\ [][Next]_vars

\* ------------------------------------------------------------------------
\* The clock of the intraday forecast: requests for one target date, one
\* after the other, while entries for that date keep arriving
\* ------------------------------------------------------------------------

InitClock ==
    /\ db = BaseRows
    /\ files = DiskSeed("flat")
    /\ _models = [seed |-> {}, live |-> {}]
    /\ runs = 0
    /\ resp = NoResponse
    /\ call = NoCall
    /\ probe = NoProbe

\* Entries for the target date, made during the day or on the next morning.
ClockRows ==
    {[product_name |-> <<"N">>, date |-> Target, units |-> 3, created_at |-> t]
        : t \in {At(Target, 11), At(Target, 15), At(Target, 21), At(DayAfter, 9)}}

ClockForecast ==
    \E hours \in {<<8, 22>>, <<10, 20>>},
       as_of \in {{}, {At(Target, 8)}, {At(Target, 15)}, {At(Target, 21)},
                  {At(DayAfter, 9)}} :
        ml_forecast_intraday(Target, 10, "seed", hours[1], hours[2], as_of, ML_SECRET,
                             {EngineUp})

ClockSale == \E row \in ClockRows : AddSale(row)

NextClock == ClockForecast \/ ClockSale

SpecClock == InitClock /\ [][NextClock]_vars

\* ------------------------------------------------------------------------
\* _day_fraction on its own
\* ------------------------------------------------------------------------

TicksPerHour == 2

\* The instants of one day, TicksPerHour to the hour.
Instants ==
    {[date |-> Target, tod |-> k * (60 \div TicksPerHour)]
        : k \in 0..(24 * TicksPerHour - 1)}

InitDayFraction ==
    /\ db = BaseRows
    /\ files = EmptyDir
    /\ _models = [seed |-> {}, live |-> {}]
    /\ runs = 0
    /\ resp = NoResponse
    /\ call = NoCall
    /\ probe \in {[NoProbe EXCEPT !.now = t, !.open_hour = o, !.close_hour = c]
                    : t \in Instants, o \in 0..23, c \in 0..23}

ApplyDayFraction ==
    /\ ~probe.applied
    /\ probe' = [probe EXCEPT
                    !.applied = TRUE,
                    !.frac = _day_fraction(probe.now, probe.open_hour,
                                           probe.close_hour)]
    /\ UNCHANGED <<db, files, _models, runs, resp, call>>

NextDayFraction == ApplyDayFraction

SpecDayFraction == InitDayFraction /\ [][NextDayFraction]_vars

\* ------------------------------------------------------------------------
\* The service over a sales table that starts empty
\* ------------------------------------------------------------------------

InitEmptyTable ==
    /\ db = {}
    /\ files \in {EmptyDir} \cup UNION {{DiskSeed(r), DiskSeedNoMeta(r), DiskLive(r),
                                         DiskBoth(r)} : r \in Regressors}
    /\ _models = [seed |-> {}, live |-> {}]
    /\ runs = 0
    /\ resp = NoResponse
    /\ call = NoCall
    /\ probe = NoProbe

FirstSale ==
    /\ Idle
    /\ Cardinality(db) < MaxSales
    /\ \E row \in SaleRows : AddSale(row)

NextEmptyTable == Train \/ Forecast \/ ForecastIntraday \/ FirstSale \/ Respond

SpecEmptyTable == InitEmptyTable /\ [][NextEmptyTable]_vars

\* ------------------------------------------------------------------------
\* Properties
\* ------------------------------------------------------------------------

IntradayOk == resp.endpoint = "intraday" /\ resp.status = 200
ForecastOk == resp.endpoint = "forecast" /\ resp.status = 200

ItemNames == {resp.items[i].productName : i \in 1..Len(resp.items)}

\* C1: in every intraday result, the blended eod_units of each row is at
\* least the partial_units blended into that row, whatever now, the opening
\* hours, the model's prediction and the partial units are.
C1_ObservedFloor ==
    IntradayOk => \A r \in call.df : RLe(r.partial_units, r.eod_units)

\* An intraday result with a row whose blend lies below its partial units,
\* so that the row is lifted to them.
C1_FloorLifts ==
    /\ IntradayOk
    /\ \E r \in call.df :
          /\ RLt(blend(r.model_pred, r.partial_units, call.frac), r.partial_units)
          /\ r.eod_units = r.partial_units

\* C2: on every inference path, the ordered columns handed to model.predict
\* are the ordered columns a model fitted by run_training was fitted on:
\* product_name and the 13 numeric fields.
C2_SameSchema ==
    \A m \in call.model :
        (m.run > 0 /\ call.X_columns # <<>>) =>
            /\ call.X_columns = m.feature_names_in
            /\ call.X_columns =
                 <<"product_name", "year", "month", "day", "dow", "doy", "is_weekend",
                   "days_to_halloween", "has_active_discount", "discount_percent",
                   "avg_discount_effectiveness", "basket_association_count",
                   "top_basket_confidence", "avg_basket_confidence">>

\* C3: when the seed model is the one used, every product name of the
\* response of either forecast is a product of the frozen seed window.
C3_SeedFrozen ==
    ((ForecastOk \/ IntradayOk) /\ call.mode_used = "seed") =>
        ItemNames \subseteq _distinct_products(db, SEED_END)

\* C4 as stated: a request whose mode has no artifact ends in 404 without
\* items, for mode=seed and for mode=live, whatever the other artifact.
C4_NotFoundForRequestedMode ==
    (call.selected /\ ~call.artifact[call.mode]) =>
        resp.status = 404 /\ resp.items = <<>>

\* C4: a request that reaches model selection ends in 404 without items when
\* mode=seed and there is no seed artifact, and when mode=live and there is
\* neither a live nor a seed artifact; a mode=live request without a live
\* artifact but with a seed artifact is served by the seed model and says so.
C4_NotFoundUnlessSeedFallback ==
    call.selected =>
        /\ (call.mode = "seed" /\ ~call.artifact.seed) =>
              resp.status = 404 /\ resp.items = <<>>
        /\ (call.mode = "live" /\ ~call.artifact.live /\ ~call.artifact.seed) =>
              resp.status = 404 /\ resp.items = <<>>
        /\ (call.mode = "live" /\ ~call.artifact.live /\ call.artifact.seed) =>
              /\ resp.status # 404
              /\ call.mode_used = "seed"
              /\ resp.status = 200 => resp.modeUsed \in {"seed", "seed-intraday"}

\* A mode=live request answered with items from the seed model, there being
\* no live artifact.
C4_LiveServedBySeed ==
    /\ call.selected
    /\ call.mode = "live"
    /\ ~call.artifact.live
    /\ resp.status = 200
    /\ resp.items # <<>>
    /\ call.mode_used = "seed"

\* C5: whenever the base confidence is defined, the confidence of every row
\* of an intraday result lies in [0, 1], also where the prediction, the
\* partial units and the eod are 0.
C5_ConfidenceInUnitInterval ==
    (IntradayOk /\ call.base_conf # {}) =>
        /\ \A r \in call.df :
              /\ r.confidence # {}
              /\ \A c \in r.confidence : RLe(R0, c) /\ RLe(c, R1)
        /\ \A i \in 1..Len(resp.items) :
              /\ resp.items[i].confidence # {}
              /\ resp.items[i].confidence \subseteq 0..1000

\* An intraday result with a base confidence, a row whose prediction,
\* partial units and eod are all 0, and a row whose share of the model
\* exceeds 1 and is cut to it.
C5_ZeroRowAndCutRow ==
    /\ IntradayOk
    /\ call.base_conf # {}
    /\ \E r \in call.df :
          r.model_pred = R0 /\ r.partial_units = R0 /\ r.eod_units = R0
    /\ \E r \in call.df, b \in call.base_conf :
          /\ RLt(model_share_den(r.model_pred, r.partial_units, call.frac),
                 RMul(b, model_share_num(r.model_pred, call.frac)))
          /\ r.confidence = {R1}

\* C6: predictedUnits is at least 0 for every item of every response of
\* either forecast.
C6_NonNegativeUnits ==
    (ForecastOk \/ IntradayOk) =>
        \A i \in 1..Len(resp.items) : RLe(R0, resp.items[i].predictedUnits)

\* C7 as stated: 0 when now is at or before the opening time, 1 when now is
\* at or after the closing time, the linear value strictly between, always
\* within [0, 1], for all hours 0..23.
C7_ZeroOneLinear ==
    probe.applied =>
        LET t == probe.now.tod
            open == probe.open_hour * 60
            close == probe.close_hour * 60
        IN  /\ t <= open => probe.frac = R0
            /\ t >= close => probe.frac = R1
            /\ (open < t /\ t < close) => probe.frac = Rat(t - open, close - open)
            /\ RLe(R0, probe.frac) /\ RLe(probe.frac, R1)

\* C7: _day_fraction is 0 when now is at or before the opening time; past
\* the opening time it is 1 when now is at or after the closing time and the
\* linear value (now - open)/(close - open) otherwise; it is within [0, 1]
\* for all hours 0..23; with open 8 and close 22, 08:00 gives 0, 15:00 gives
\* 1/2 and 22:00 gives 1.
C7_ZeroBeforeOpenFirst ==
    probe.applied =>
        LET t == probe.now.tod
            open == probe.open_hour * 60
            close == probe.close_hour * 60
        IN  /\ t <= open => probe.frac = R0
            /\ (open < t /\ t >= close) => probe.frac = R1
            /\ (open < t /\ t < close) => probe.frac = Rat(t - open, close - open)
            /\ RLe(R0, probe.frac) /\ RLe(probe.frac, R1)
            /\ (probe.open_hour = 8 /\ probe.close_hour = 22) =>
                  /\ t = 8 * 60 => probe.frac = R0
                  /\ t = 15 * 60 => probe.frac = <<1, 2>>
                  /\ t = 22 * 60 => probe.frac = R1

\* _day_fraction applied to an instant that is at or after the closing time
\* and at or before the opening time: it returned 0.
C7_ClosedBeforeOpen ==
    /\ probe.applied
    /\ probe.close_hour * 60 <= probe.now.tod
    /\ probe.now.tod <= probe.open_hour * 60
    /\ probe.frac = R0

\* C8: for one target date and fixed opening hours, of two intraday requests
\* in a row the one with the later resolved now has the greater or equal
\* day fraction.
C8_MonotoneInNow ==
    [][(/\ IntradayOk
        /\ (resp.endpoint = "intraday" /\ resp.status = 200)'
        /\ call.open_hour = call.open_hour'
        /\ call.close_hour = call.close_hour'
        /\ \A t \in call.now, u \in call.now' : DtLe(t, u))
          => RLe(call.frac, call.frac')]_vars

\* C9: the intraday result holds exactly the products of the model's frame
\* and of the partials' frame, each product once, with 0 for the side a
\* product is absent from.
C9_UnionEachOnce ==
    IntradayOk =>
        LET model_names == {r.product_name : r \in call.df_model}
            partial_names == {r.product_name : r \in call.df_partials}
        IN  /\ {r.product_name : r \in call.df} = model_names \cup partial_names
            /\ resp.totalProducts = Cardinality(model_names \cup partial_names)
            /\ \A r \in call.df :
                  /\ Cardinality({x \in call.df : x.product_name = r.product_name}) = 1
                  /\ r.product_name \notin model_names => r.model_pred = R0
                  /\ r.product_name \notin partial_names => r.partial_units = R0

\* C10: the items of an intraday response are in descending order of eod,
\* and items of equal eod are in ascending order of product name.
C10_DescendingTiesByName ==
    IntradayOk =>
        \A i, j \in 1..Len(resp.items) :
            i < j =>
                \/ RLt(resp.items[j].predictedUnits, resp.items[i].predictedUnits)
                \/ /\ resp.items[j].predictedUnits = resp.items[i].predictedUnits
                   /\ ~StrLt(resp.items[j].productName, resp.items[i].productName)

\* ------------------------------------------------------------------------
\* _enrich_with_discount_features applied to grids, engines and tables
\* ------------------------------------------------------------------------

MaxWindows == 2
MaxRecords == 2

ThirdDay == <<2025, 10, 17>>

BoundedSubsets(S, n) == {T \in SUBSET S : Cardinality(T) <= n}

\* Frames of (product_name, date) rows as calendar_grid builds them.
Grids ==
    {{[product_name |-> g[1], date |-> g[2]] : g \in calendar_grid(names, range[1], range[2])}
        : names \in {{<<"A">>}, {<<"A">>, <<"B">>}},
          range \in {<<Target, Target>>, <<Target, ThirdDay>>}}

\* Rows of public.discounts: windows that overlap, a window of 0 percent,
\* windows of one day, a window that ended before the grid starts.
DiscountRows ==
    {[product_name |-> x[1], discount_percent |-> x[2], start_date |-> x[3],
      end_date |-> x[4]]
        : x \in {<<<<"A">>, 10, Target, DayAfter>>, <<<<"A">>, 20, DayAfter, ThirdDay>>,
                 <<<<"A">>, 0, Target, Target>>, <<<<"A">>, 10, ThirdDay, ThirdDay>>,
                 <<<<"B">>, 10, Target, Target>>, <<<<"B">>, 20, DayAfter, DayAfter>>,
                 <<<<"A">>, 30, <<2025, 10, 14>>, <<2025, 10, 14>>>>}}

\* Rows of public.discount_effectiveness: two records of one (product,
\* percent), a record of 0 percent, a record of another product.
EffectivenessRows ==
    {[id |-> x[1], product_name |-> x[2], discount_percent |-> x[3],
      sales_lift_percent |-> x[4]]
        : x \in {<<1, <<"A">>, 10, 4>>, <<2, <<"A">>, 10, 7>>, <<3, <<"A">>, 20, 8>>,
                 <<4, <<"A">>, 0, 3>>, <<5, <<"B">>, 10, 2>>}}

InitDiscount ==
    /\ db = BaseRows
    /\ files = EmptyDir
    /\ _models = [seed |-> {}, live |-> {}]
    /\ runs = 0
    /\ resp = NoResponse
    /\ call = NoCall
    /\ probe \in {[df |-> g, engine |-> e, discounts |-> d, effectiveness |-> f,
                   applied |-> FALSE, out |-> <<>>]
                    : g \in Grids,
                      e \in {{}} \cup {{x} : x \in {y \in Engines : y.basket_ok}},
                      d \in BoundedSubsets(DiscountRows, MaxWindows),
                      f \in BoundedSubsets(EffectivenessRows, MaxRecords)}

EnrichDiscount ==
    /\ ~probe.applied
    /\ probe' = [probe EXCEPT
                    !.applied = TRUE,
                    !.out = _enrich_with_discount_features(
                                probe.df, probe.engine, probe.discounts,
                                probe.effectiveness)]
    /\ UNCHANGED <<db, files, _models, runs, resp, call>>

SpecDiscount == InitDiscount /\ [][EnrichDiscount]_vars

\* The windows of the table that cover a row: same product, and
\* start_date <= date <= end_date.
Covering(r) ==
    {x \in probe.discounts : /\ x.product_name = r.product_name
                             /\ DateLe(x.start_date, r.date)
                             /\ DateLe(r.date, x.end_date)}

\* ------------------------------------------------------------------------
\* _enrich_with_basket_features applied to grids, engines and tables
\* ------------------------------------------------------------------------

\* Rows of public.basket_analysis: associations of one product with different
\* and with equal confidence, of a second product, of a product outside the
\* grids.
BasketRows ==
    {[id |-> x[1], primary_product |-> x[2], confidence_score |-> x[3]]
        : x \in {<<1, <<"A">>, <<1, 2>>>>, <<2, <<"A">>, <<1, 4>>>>,
                 <<3, <<"A">>, <<1, 4>>>>, <<4, <<"B">>, <<3, 4>>>>,
                 <<5, <<"N">>, <<1, 2>>>>}}

InitBasket ==
    /\ db = BaseRows
    /\ files = EmptyDir
    /\ _models = [seed |-> {}, live |-> {}]
    /\ runs = 0
    /\ resp = NoResponse
    /\ call = NoCall
    /\ probe \in {[df |-> g, engine |-> e, basket |-> b, applied |-> FALSE, out |-> <<>>]
                    : g \in Grids,
                      e \in {{}} \cup {{x} : x \in {y \in Engines : y.discounts_ok
                                                       /\ y.effectiveness_ok}},
                      b \in BoundedSubsets(BasketRows, MaxRecords)}

EnrichBasket ==
    /\ ~probe.applied
    /\ probe' = [probe EXCEPT
                    !.applied = TRUE,
                    !.out = _enrich_with_basket_features(probe.df, probe.engine,
                                                         probe.basket)]
    /\ UNCHANGED <<db, files, _models, runs, resp, call>>

SpecBasket == InitBasket /\ [][EnrichBasket]_vars

\* The association records of a row's product.
Associations(r) == {x \in probe.basket : x.primary_product = r.product_name}

\* ------------------------------------------------------------------------
\* The service while the enrichment backend cannot be reached
\* ------------------------------------------------------------------------

\* _get_engine() returned None, or every enrichment query raises.
ForecastOutage ==
    /\ Idle
    /\ \E range \in {<<Target, Target>>, <<Target, DayAfter>>}, mode \in Modes,
          engine \in {{}, {EngineDown}} :
            ml_forecast(range[1], range[2], 10, mode, ML_SECRET, engine)

NextOutage == Train \/ ForecastOutage \/ Respond

SpecOutage == Init /\ [][NextOutage]_vars

\* ------------------------------------------------------------------------
\* calendar_grid applied to product lists, ranges, engines and tables; the
\* same range is then sent to GET /ml/forecast
\* ------------------------------------------------------------------------

InitGrid ==
    /\ db = BaseRows
    /\ files = DiskSeed("flat")
    /\ _models = [seed |-> {}, live |-> {}]
    /\ runs = 0
    /\ resp = NoResponse
    /\ call = NoCall
    /\ probe \in {[products |-> p, start |-> range[1], end |-> range[2], engine |-> e,
                   tables |-> [discounts |-> d, effectiveness |-> t[1], basket |-> t[2]],
                   applied |-> FALSE, out |-> <<>>]
                    : p \in {{}, {<<" ">>}, {<<"A">>}, {<<"A">>, <<" ", "A">>},
                             {<<"A">>, <<"B">>},
                             {<<"A">>, <<" ", "A">>, <<"B", " ">>, <<" ">>}},
                      range \in {<<Target, Target>>, <<Target, ThirdDay>>,
                                 <<DayAfter, Target>>},
                      e \in {{}} \cup {{x} : x \in Engines},
                      d \in BoundedSubsets(DiscountRows, MaxWindows),
                      t \in {<<{}, {}>>, <<EffectivenessRows, BasketRows>>}}

BuildGrid ==
    /\ ~probe.applied
    /\ probe' = [probe EXCEPT
                    !.applied = TRUE,
                    !.out = calendar_grid_frame(probe.products, probe.start, probe.end,
                                                probe.engine, probe.tables)]
    /\ UNCHANGED <<db, files, _models, runs, resp, call>>

GridForecast ==
    /\ probe.applied
    /\ Idle
    /\ ml_forecast(probe.start, probe.end, 10, "seed", ML_SECRET, probe.engine)

NextGrid == BuildGrid \/ GridForecast

SpecGrid == InitGrid /\ [][NextGrid]_vars

\* ------------------------------------------------------------------------
\* _atomic_write_joblib run by concurrent training runs of one mode, and a
\* reader of the final path (train.py)
\* ------------------------------------------------------------------------

MaxWriters == 2
Chunks == 2

\* A file as a reader finds it: position k holds the run that wrote it, 0
\* where nothing was written.  A complete artifact of run r is r at every
\* position.
complete(r) == [k \in 1..Chunks |-> r]

\* The directory holds the final path and tmp = out_path + ".tmp", the same
\* name for every run of a mode; an entry is {} or one inode.  Run 0 is the
\* run that wrote the artifact found at start.
InitPublish ==
    /\ db = BaseRows
    /\ files = EmptyDir
    /\ _models = [seed |-> {}, live |-> {}]
    /\ runs = 0
    /\ resp = NoResponse
    /\ call = NoCall
    /\ probe \in {[dir |-> [tmp |-> {}, final |-> f],
                   inode |-> [i \in 0..MaxWriters |-> IF i = 0 THEN complete(0) ELSE <<>>],
                   used |-> 0,
                   pc |-> [r \in 1..MaxWriters |-> "start"],
                   fd |-> [r \in 1..MaxWriters |-> 0],
                   pos |-> [r \in 1..MaxWriters |-> 0],
                   seen |-> {}, reads |-> 0]
                    : f \in {{}, {0}}}

\* joblib.dump(obj, tmp) opens tmp for writing: an existing file is
\* truncated, a missing one is created.
dump_open ==
    \E r \in 1..MaxWriters :
        /\ probe.pc[r] = "start"
        /\ LET i == IF probe.dir.tmp # {} THEN CHOOSE x \in probe.dir.tmp : TRUE
                    ELSE probe.used + 1
           IN  probe' = [probe EXCEPT !.dir.tmp = {i},
                                      !.inode[i] = <<>>,
                                      !.used = IF probe.dir.tmp # {} THEN @ ELSE @ + 1,
                                      !.pc[r] = "writing",
                                      !.fd[r] = i,
                                      !.pos[r] = 0]
        /\ UNCHANGED <<db, files, _models, runs, resp, call>>

\* joblib.dump writes the next part at the offset of its own descriptor.
dump_write ==
    \E r \in 1..MaxWriters :
        /\ probe.pc[r] = "writing"
        /\ LET i == probe.fd[r]
               k == probe.pos[r] + 1
               old == probe.inode[i]
               new == [j \in 1..(IF Len(old) > k THEN Len(old) ELSE k) |->
                          IF j = k THEN r ELSE IF j <= Len(old) THEN old[j] ELSE 0]
           IN  probe' = [probe EXCEPT !.inode[i] = new,
                                      !.pos[r] = k,
                                      !.pc[r] = IF k = Chunks THEN "written" ELSE "writing"]
        /\ UNCHANGED <<db, files, _models, runs, resp, call>>

\* os.replace(tmp, out_path); FileNotFoundError when tmp is gone.
os_replace ==
    \E r \in 1..MaxWriters :
        /\ probe.pc[r] = "written"
        /\ probe' = IF probe.dir.tmp = {}
                    THEN [probe EXCEPT !.pc[r] = "failed"]
                    ELSE [probe EXCEPT !.dir.final = probe.dir.tmp,
                                       !.dir.tmp = {},
                                       !.pc[r] = "done"]
        /\ UNCHANGED <<db, files, _models, runs, resp, call>>

\* A reader opens the final path and reads what it holds (_load_model,
\* _load_meta).
reader_open ==
    /\ probe.reads < MaxWriters
    /\ probe' = [probe EXCEPT !.seen = {probe.inode[i] : i \in probe.dir.final},
                              !.reads = @ + 1]
    /\ UNCHANGED <<db, files, _models, runs, resp, call>>

NextPublish == dump_open \/ dump_write \/ os_replace \/ reader_open

SpecPublish == InitPublish /\ [][NextPublish]_vars

\* ------------------------------------------------------------------------
\* _get_engine called by concurrent requests (features.py)
\* ------------------------------------------------------------------------

MaxCallers == 3

\* _ENGINE is None (0), the sentinel False (-1), or the handle of the n-th
\* create_engine call (n).  A caller's result is None ({}) or a handle.
InitEngine ==
    /\ db = BaseRows
    /\ files = EmptyDir
    /\ _models = [seed |-> {}, live |-> {}]
    /\ runs = 0
    /\ resp = NoResponse
    /\ call = NoCall
    /\ probe = [_ENGINE |-> 0, created |-> 0, failed |-> 0,
                pc |-> [t \in 1..MaxCallers |-> "call"],
                result |-> [t \in 1..MaxCallers |-> {}]]

\* if _ENGINE is None:
engine_test ==
    \E t \in 1..MaxCallers :
        /\ probe.pc[t] = "call"
        /\ probe' = [probe EXCEPT !.pc[t] = IF probe._ENGINE = 0 THEN "create"
                                            ELSE "return"]
        /\ UNCHANGED <<db, files, _models, runs, resp, call>>

\* _ENGINE = create_engine(...), or _ENGINE = False when it raises
engine_create ==
    \E t \in 1..MaxCallers, ok \in BOOLEAN :
        /\ probe.pc[t] = "create"
        /\ probe' = IF ok
                    THEN [probe EXCEPT !._ENGINE = probe.created + 1,
                                       !.created = @ + 1, !.pc[t] = "return"]
                    ELSE [probe EXCEPT !._ENGINE = -1,
                                       !.failed = @ + 1, !.pc[t] = "return"]
        /\ UNCHANGED <<db, files, _models, runs, resp, call>>

\* return _ENGINE if _ENGINE is not False else None
engine_return ==
    \E t \in 1..MaxCallers :
        /\ probe.pc[t] = "return"
        /\ probe' = [probe EXCEPT !.pc[t] = "done",
                                  !.result[t] = IF probe._ENGINE = -1 THEN {}
                                                ELSE {probe._ENGINE}]
        /\ UNCHANGED <<db, files, _models, runs, resp, call>>

NextEngine == engine_test \/ engine_create \/ engine_return

SpecEngine == InitEngine /\ [][NextEngine]_vars

\* ------------------------------------------------------------------------
\* The blend of one row at two day fractions (main.py 426-429, 466-478)
\* ------------------------------------------------------------------------

\* Two day fractions, frac <= later, of one row: a model prediction, partial
\* units (a return makes them negative), a base confidence or none.
InitBlend ==
    /\ db = BaseRows
    /\ files = EmptyDir
    /\ _models = [seed |-> {}, live |-> {}]
    /\ runs = 0
    /\ resp = NoResponse
    /\ call = NoCall
    /\ probe \in {[base_conf |-> b, model_pred |-> m, partial_units |-> u,
                   frac |-> f[1], later |-> f[2], applied |-> FALSE,
                   w |-> R0, eff_frac |-> R0, eod_units |-> R0, confidence |-> {},
                   confidence_later |-> {}]
                    : b \in {{}, {<<3, 4>>}, {R1}},
                      m \in {R0, RInt(2), RInt(3)},
                      u \in {RInt(-2), R0, RInt(1), RInt(5)},
                      f \in {x \in {R0, <<1, 14>>, <<1, 2>>, <<4, 5>>, <<13, 14>>, R1}
                                   \X {R0, <<1, 14>>, <<1, 2>>, <<4, 5>>, <<13, 14>>, R1}
                                : RLe(x[1], x[2])}}

ApplyBlend ==
    /\ ~probe.applied
    /\ probe' = [probe EXCEPT
                    !.applied = TRUE,
                    !.w = w(probe.frac),
                    !.eff_frac = eff_frac(probe.frac),
                    !.eod_units = eod_units(probe.model_pred, probe.partial_units,
                                            probe.frac),
                    !.confidence = confidence(probe.base_conf, probe.model_pred,
                                              probe.partial_units, probe.frac),
                    !.confidence_later = confidence(probe.base_conf, probe.model_pred,
                                                    probe.partial_units, probe.later)]
    /\ UNCHANGED <<db, files, _models, runs, resp, call>>

SpecBlend == InitBlend /\ [][ApplyBlend]_vars

\* ------------------------------------------------------------------------
\* make_features applied to raw frames (features.py 357-454)
\* ------------------------------------------------------------------------

MaxRows == 2

\* Raw units: integers (a return is negative), floats, strings with and
\* without a number in them, a missing value.
RawUnits ==
    {[t |-> "number", s |-> <<>>, v |-> x] : x \in {RInt(3), R0, RInt(-2), <<5, 2>>, <<-1, 2>>}}
        \cup {[t |-> "str", s |-> x, v |-> R0] : x \in {<<"x">>, <<"7">>}}
        \cup {[t |-> "none", s |-> <<>>, v |-> R0]}

\* Raw rows: names with and without blanks around them, dates in and out of
\* the calendar.
RawRows ==
    [product_name : {<<"A">>, <<" ", "B">>},
     date : {Target, <<2025, 10, 32>>},
     units : RawUnits]

InitFeatures ==
    /\ db = BaseRows
    /\ files = EmptyDir
    /\ _models = [seed |-> {}, live |-> {}]
    /\ runs = 0
    /\ resp = NoResponse
    /\ call = NoCall
    /\ probe \in {[df |-> rows, engine |-> e, tables |-> t, applied |-> FALSE,
                   out |-> [raised |-> FALSE, X_columns |-> <<>>, X |-> <<>>, y |-> <<>>,
                            df |-> [columns |-> <<>>, rows |-> <<>>]]]
                    : rows \in UNION {[1..n -> RawRows] : n \in 1..MaxRows},
                      e \in {{}, {EngineUp}},
                      t \in {[discounts |-> DiscountRows,
                              effectiveness |-> EffectivenessRows,
                              basket |-> BasketRows]}}

MakeFeatures ==
    /\ ~probe.applied
    /\ probe' = [probe EXCEPT
                    !.applied = TRUE,
                    !.out = make_features(probe.df, probe.engine, probe.tables)]
    /\ UNCHANGED <<db, files, _models, runs, resp, call>>

SpecFeatures == InitFeatures /\ [][MakeFeatures]_vars

\* ------------------------------------------------------------------------
\* A train request and a forecast request served by two worker threads
\* (main.py 216-253, 309-328; train.py 428-470)
\* ------------------------------------------------------------------------

MaxTrainings == 2

\* Artifacts and cache slots hold the number of the training run that made
\* them, 0 where there is none.  The train thread is between its steps at
\* "dumped" (model file replaced) and "described" (metadata file replaced);
\* the forecast thread at "seed_ensured", "ensured", "model" (model object
\* read), "mode_used" (mode_used and path computed), "selected" (metadata
\* loaded).  slot is the cache slot the model object was read from.
InitThreads ==
    /\ db = BaseRows
    /\ files = EmptyDir
    /\ _models = [seed |-> {}, live |-> {}]
    /\ runs = 0
    /\ resp = NoResponse
    /\ call = NoCall
    /\ probe = [disk |-> [seed |-> [model |-> 0, meta |-> 0],
                          live |-> [model |-> 0, meta |-> 0]],
                cache |-> [seed |-> 0, live |-> 0],
                trainings |-> 0,
                train |-> [pc |-> "idle", mode |-> "seed", run |-> 0],
                forecast |-> [pc |-> "idle", mode |-> "seed", model |-> 0, slot |-> "",
                              mode_used |-> "", path |-> "", meta |-> 0,
                              status |-> 0]]

\* POST /ml/train?mode=... arrives.
train_begin ==
    /\ probe.train.pc = "idle"
    /\ probe.trainings < MaxTrainings
    /\ \E mode \in Modes :
          probe' = [probe EXCEPT !.trainings = @ + 1,
                                 !.train = [pc |-> "fitted", mode |-> mode,
                                            run |-> probe.trainings + 1]]
    /\ UNCHANGED <<db, files, _models, runs, resp, call>>

\* run_training: _atomic_write_joblib(pipe, model_path)
train_write_model ==
    /\ probe.train.pc = "fitted"
    /\ probe' = [probe EXCEPT !.disk[probe.train.mode].model = probe.train.run,
                              !.train.pc = "dumped"]
    /\ UNCHANGED <<db, files, _models, runs, resp, call>>

\* run_training: _atomic_write_json(meta, meta_path)
train_write_meta ==
    /\ probe.train.pc = "dumped"
    /\ probe' = [probe EXCEPT !.disk[probe.train.mode].meta = probe.train.run,
                              !.train.pc = "described"]
    /\ UNCHANGED <<db, files, _models, runs, resp, call>>

\* ml_train: _models[mode] = _load_model(path of mode), then the response.
train_hot_reload ==
    /\ probe.train.pc = "described"
    /\ probe' = [probe EXCEPT !.cache[probe.train.mode] = probe.disk[probe.train.mode].model,
                              !.train.pc = "idle"]
    /\ UNCHANGED <<db, files, _models, runs, resp, call>>

\* GET /ml/forecast?mode=... arrives.
forecast_begin ==
    /\ probe.forecast.pc = "idle"
    /\ \E mode \in Modes :
          probe' = [probe EXCEPT !.forecast = [pc |-> "called", mode |-> mode, model |-> 0,
                                               slot |-> "", mode_used |-> "", path |-> "",
                                               meta |-> 0, status |-> 0]]
    /\ UNCHANGED <<db, files, _models, runs, resp, call>>

\* _ensure_models_loaded: the statement for the seed slot, then the one for
\* the live slot.
ensure_slot ==
    /\ probe.forecast.pc \in {"called", "seed_ensured"}
    /\ LET slot == IF probe.forecast.pc = "called" THEN "seed" ELSE "live"
       IN  probe' = [probe EXCEPT
                        !.cache[slot] = IF @ = 0 THEN probe.disk[slot].model ELSE @,
                        !.forecast.pc = IF slot = "seed" THEN "seed_ensured" ELSE "ensured"]
    /\ UNCHANGED <<db, files, _models, runs, resp, call>>

\* model = _models["live"] or _models["seed"] (mode=live), model =
\* _models["seed"] (mode=seed), and the 404 when model is None.
select_read_model ==
    /\ probe.forecast.pc = "ensured"
    /\ LET slot == IF probe.forecast.mode = "live" /\ probe.cache.live # 0 THEN "live"
                   ELSE "seed"
           model == probe.cache[slot]
       IN  probe' = [probe EXCEPT
                        !.forecast.model = model,
                        !.forecast.slot = IF model = 0 THEN "" ELSE slot,
                        !.forecast.status = IF model = 0 THEN 404 ELSE 0,
                        !.forecast.pc = IF model = 0 THEN "done" ELSE "model"]
    /\ UNCHANGED <<db, files, _models, runs, resp, call>>

\* mode_used = "live" if _models["live"] is not None else "seed"; path
select_read_mode_used ==
    /\ probe.forecast.pc = "model"
    /\ LET mode_used == IF probe.forecast.mode = "live" /\ probe.cache.live # 0 THEN "live"
                        ELSE "seed"
       IN  probe' = [probe EXCEPT !.forecast.mode_used = mode_used,
                                  !.forecast.path = model_path_of(mode_used),
                                  !.forecast.pc = "mode_used"]
    /\ UNCHANGED <<db, files, _models, runs, resp, call>>

\* return mode_used, model, path, _load_meta(path)
select_load_meta ==
    /\ probe.forecast.pc = "mode_used"
    /\ probe' = [probe EXCEPT !.forecast.meta = probe.disk[probe.forecast.mode_used].meta,
                              !.forecast.pc = "selected"]
    /\ UNCHANGED <<db, files, _models, runs, resp, call>>

\* The rest of the handler: base confidence, trainedAt and the seed product
\* list from meta, the prediction from model, the response.
forecast_return ==
    /\ probe.forecast.pc \in {"selected", "done"}
    /\ probe' = [probe EXCEPT !.forecast.pc = IF @ = "selected" THEN "done" ELSE "idle",
                              !.forecast.status = IF probe.forecast.pc = "selected"
                                                  THEN 200 ELSE @]
    /\ UNCHANGED <<db, files, _models, runs, resp, call>>

NextThreads ==
    \/ train_begin
    \/ train_write_model
    \/ train_write_meta
    \/ train_hot_reload
    \/ forecast_begin
    \/ ensure_slot
    \/ select_read_model
    \/ select_read_mode_used
    \/ select_load_meta
    \/ forecast_return

SpecThreads == InitThreads /\ [][NextThreads]_vars

\* ------------------------------------------------------------------------
\* _time_split applied to frames of 1 to MaxSplitRows rows (train.py 145-181)
\* ------------------------------------------------------------------------

MaxSplitRows == 11

\* Frames of n rows, each row with its own id: dates that fall from row to
\* row, dates that rise, and dates shared by two rows that follow each other.
SplitFrames ==
    UNION {{[i \in 1..n |-> [id |-> i, date |-> <<2024, 10, n + 1 - i>>]],
            [i \in 1..n |-> [id |-> i, date |-> <<2024, 10, i>>]],
            [i \in 1..n |-> [id |-> i, date |-> <<2024, 10, (i + 1) \div 2>>]]}
              : n \in 1..MaxSplitRows}

InitSplit ==
    /\ db = BaseRows
    /\ files = EmptyDir
    /\ _models = [seed |-> {}, live |-> {}]
    /\ runs = 0
    /\ resp = NoResponse
    /\ call = NoCall
    /\ probe \in {[df_xy |-> df, applied |-> FALSE,
                   out |-> [train |-> <<>>, valid |-> <<>>, test |-> <<>>]]
                    : df \in SplitFrames}

TimeSplit ==
    /\ ~probe.applied
    /\ \E out \in _time_split(probe.df_xy) :
          probe' = [probe EXCEPT !.applied = TRUE, !.out = out]
    /\ UNCHANGED <<db, files, _models, runs, resp, call>>

SpecSplit == InitSplit /\ [][TimeSplit]_vars

\* ------------------------------------------------------------------------
\* Base confidence of the metadata of two trainings (main.py 126-134,
\* train.py 201-218, 443-446)
\* ------------------------------------------------------------------------

\* Validation MAPE values _safe_mape can return: fractions from 0 upward,
\* above 1.0 where the predictions are off by more than the targets.
MapeValues ==
    {R0, <<1, 100>>, <<1, 4>>, <<1, 2>>, <<99, 100>>, R1, <<101, 100>>, <<3, 2>>,
     RInt(2), RInt(50), RInt(100), RInt(150)}

\* The metadata of two trainings, the second with the validation MAPE of the
\* first or a higher one.
InitMeta ==
    /\ db = BaseRows
    /\ files = EmptyDir
    /\ _models = [seed |-> {}, live |-> {}]
    /\ runs = 0
    /\ resp = NoResponse
    /\ call = NoCall
    /\ probe \in {[meta |-> {training_meta(1, "seed", {}, m[1])},
                   worse |-> {training_meta(2, "seed", {}, m[2])},
                   applied |-> FALSE, base_conf |-> {}, base_conf_worse |-> {}]
                    : m \in {x \in MapeValues \X MapeValues : RLe(x[1], x[2])}}

BaseConfidence ==
    /\ ~probe.applied
    /\ probe' = [probe EXCEPT
                    !.applied = TRUE,
                    !.base_conf = _valid_confidence_from_meta(probe.meta),
                    !.base_conf_worse = _valid_confidence_from_meta(probe.worse)]
    /\ UNCHANGED <<db, files, _models, runs, resp, call>>

SpecMeta == InitMeta /\ [][BaseConfidence]_vars

\* C11: when neither the model side nor the partial-observation side holds a
\* product for the target date, the intraday forecast answers 200 with an
\* empty item list and totalProducts = 0, not an error.
C11_EmptyUnionIsEmptyResult ==
    (/\ resp.endpoint = "intraday"
     /\ call.selected
     /\ call.model # {}
     /\ _distinct_products(db, IF call.mode_used = "seed" THEN SEED_END ELSE Target) = {}
     /\ \A t \in call.now : _partials_for_date(db, Target, t) = {})
    => /\ resp.status = 200
       /\ resp.items = <<>>
       /\ resp.totalProducts = 0

\* C12: "now" of an intraday request is the as_of override when one is
\* supplied; otherwise the latest created_at among the rows of the target
\* date; otherwise, with no row for that date, the opening time of the target
\* date.  The partial units blended are the units of the target date's rows
\* entered at or before that now, and of no other row: each blended row
\* carries the sum over the rows of its stored name, a product without such a
\* row carries 0, and every stored name entered by then is blended.
C12_NowAndPartialsUpToNow ==
    (resp.endpoint = "intraday" /\ call.selected) =>
        LET today == {r \in db : r.date = Target}
            now == CHOOSE t \in call.now : TRUE
            upto == {r \in today : DtLe(r.created_at, now)}
        IN  /\ Cardinality(call.now) = 1
            /\ call.as_of # {} => call.now = call.as_of
            /\ (call.as_of = {} /\ today # {}) =>
                  /\ \E r \in today : r.created_at = now
                  /\ \A r \in today : DtLe(r.created_at, now)
            /\ (call.as_of = {} /\ today = {}) =>
                  now = [date |-> Target, tod |-> call.open_hour * 60]
            /\ resp.status = 200 =>
                  /\ \A r \in call.df :
                        r.partial_units =
                            RInt(SumUnits({x \in upto : x.product_name \in r.key}))
                  /\ \A r \in call.df : r.key = {} \/ \E x \in upto : x.product_name \in r.key
                  /\ \A x \in upto : \E r \in call.df : r.key = {x.product_name}

\* An override earlier than an entry of the day: one entry is counted, a
\* later one is left out.
C12_OverrideCutsLaterEntry ==
    /\ IntradayOk
    /\ call.as_of # {}
    /\ \E x \in db : x.date = Target /\ ~DtLe(x.created_at, CHOOSE t \in call.now : TRUE)
    /\ \E r \in call.df : r.key # {} /\ r.partial_units # R0

\* C13: where the discount query answers, every row (product, date) has
\* has_active_discount = 1 if and only if a window of the same product
\* satisfies start_date <= date <= end_date, both ends included;
\* discount_percent is the greatest percent among those windows, and 0 when
\* there is none.
C13_DiscountMatching ==
    (probe.applied /\ \E e \in probe.engine : e.discounts_ok) =>
        \A r \in probe.df :
            /\ probe.out[r].has_active_discount = (IF Covering(r) # {} THEN 1 ELSE 0)
            /\ Covering(r) # {} =>
                  /\ \E x \in Covering(r) : probe.out[r].discount_percent = x.discount_percent
                  /\ \A x \in Covering(r) : x.discount_percent <= probe.out[r].discount_percent
            /\ Covering(r) = {} => probe.out[r].discount_percent = 0

\* A row covered by two windows of different percents, one of them ending on
\* the row's date, beside a row that no window covers.
C13_OverlapAndLastDay ==
    /\ probe.applied
    /\ \E e \in probe.engine : e.discounts_ok
    /\ \E r \in probe.df :
          /\ \E x, y \in Covering(r) : x.discount_percent < y.discount_percent
          /\ \E x \in Covering(r) : x.end_date = r.date
          /\ probe.out[r].has_active_discount = 1
    /\ \E r \in probe.df : Covering(r) = {} /\ probe.out[r].has_active_discount = 0

\* The effectiveness records of a row's product and chosen discount_percent.
Matching(r) ==
    {x \in probe.effectiveness : /\ x.product_name = r.product_name
                                 /\ x.discount_percent = probe.out[r].discount_percent}

\* C14: where both queries answer, avg_discount_effectiveness of a row is the
\* average lift of the effectiveness records whose (product_name,
\* discount_percent) equal the row's product and chosen discount_percent, and
\* 0 when there is no such record; a row with discount_percent = 0 has
\* avg_discount_effectiveness = 0 in every case.
C14_EffectivenessOfChosenPercent ==
    probe.applied =>
        \A r \in probe.df :
            LET avg == probe.out[r].avg_discount_effectiveness
            IN  /\ probe.out[r].discount_percent = 0 => avg = R0
                /\ (\E e \in probe.engine : e.discounts_ok /\ e.effectiveness_ok) =>
                      /\ Matching(r) = {} => avg = R0
                      /\ (Matching(r) # {} /\ probe.out[r].discount_percent > 0) =>
                            /\ avg[2] > 0
                            /\ avg[1] * Cardinality(Matching(r))
                                  = SumLift(Matching(r)) * avg[2]

\* A row whose chosen percent has two records, averaging 11/2, beside a row
\* whose chosen percent has no record.
C14_AverageOfTwoRecords ==
    /\ probe.applied
    /\ \E e \in probe.engine : e.discounts_ok /\ e.effectiveness_ok
    /\ \E r \in probe.df :
          /\ Cardinality(Matching(r)) = 2
          /\ probe.out[r].avg_discount_effectiveness = <<11, 2>>
    /\ \E r \in probe.df :
          /\ probe.out[r].discount_percent > 0
          /\ Matching(r) = {}
          /\ probe.out[r].avg_discount_effectiveness = R0

\* C15: after a failure of the discount-window query or of the later
\* effectiveness query, or with no data source, every row carries the
\* defaults has_active_discount = 0, discount_percent = 0,
\* avg_discount_effectiveness = 0.
C15_DefaultsAfterAnyFailure ==
    (/\ probe.applied
     /\ \/ probe.engine = {}
        \/ \E e \in probe.engine :
              \/ ~e.discounts_ok
              \/ ~e.effectiveness_ok /\ "effectiveness" \in discount_queries(
                                            probe.df, probe.engine, probe.discounts))
    => \A r \in probe.df :
          /\ probe.out[r].has_active_discount = 0
          /\ probe.out[r].discount_percent = 0
          /\ probe.out[r].avg_discount_effectiveness = R0

\* C16: a product without an association record gets
\* (basket_association_count, top_basket_confidence, avg_basket_confidence)
\* = (0, 0, 0); a product with records gets their count, their greatest and
\* their mean confidence; when the query fails or there is no data source,
\* every row gets (0, 0, 0).
C16_BasketCountMaxMean ==
    probe.applied =>
        \A r \in probe.df :
            LET o == probe.out[r]
                sum == SumConfidence(Associations(r))
            IN  IF (\E e \in probe.engine : e.basket_ok) /\ Associations(r) # {}
                THEN /\ o.basket_association_count = Cardinality(Associations(r))
                     /\ \E x \in Associations(r) : o.top_basket_confidence = x.confidence_score
                     /\ \A x \in Associations(r) :
                           RLe(x.confidence_score, o.top_basket_confidence)
                     /\ o.avg_basket_confidence[2] > 0
                     /\ o.avg_basket_confidence[1] * Cardinality(Associations(r)) * sum[2]
                           = sum[1] * o.avg_basket_confidence[2]
                ELSE /\ o.basket_association_count = 0
                     /\ o.top_basket_confidence = R0
                     /\ o.avg_basket_confidence = R0

\* A product with two associations of different confidence, 1/2 and 1/4,
\* beside a product with none.
C16_TwoAssociationsAndNone ==
    /\ probe.applied
    /\ \E e \in probe.engine : e.basket_ok
    /\ \E r \in probe.df :
          /\ \E x, y \in Associations(r) : RLt(x.confidence_score, y.confidence_score)
          /\ probe.out[r].basket_association_count = 2
          /\ probe.out[r].avg_basket_confidence = <<3, 8>>
    /\ \E r \in probe.df :
          Associations(r) = {} /\ probe.out[r].basket_association_count = 0

\* C17: when the enrichment backend is unavailable for a whole request,
\* calendar_grid still returns the complete grid with the full column schema,
\* the calendar fields computed and the six discount and basket fields at
\* their defaults, and the forecast request completes successfully with a
\* prediction.
C17_OutageStillForecasts ==
    (/\ resp.endpoint = "forecast"
     /\ call.df_inf # {}
     /\ \A e \in call.engine : e = EngineDown)
    => /\ \A g \in call.df_inf :
             /\ ~g.raised
             /\ g.columns = calendar_grid_columns
             /\ \A r \in g.frame :
                   /\ r.calendar = calendar_fields(r.date)
                   /\ r.discount = [has_active_discount |-> 0, discount_percent |-> 0,
                                    avg_discount_effectiveness |-> R0]
                   /\ r.basket = [basket_association_count |-> 0,
                                  top_basket_confidence |-> R0,
                                  avg_basket_confidence |-> R0]
       /\ resp.status = 200
       /\ Len(resp.items) > 0

\* C18: calendar_grid raises its validation error, returns no row and sends
\* no enrichment query when no product name is left after trimming and
\* dropping blank names, or when end is before start; ml_forecast answers
\* end < start with 400 before a model is selected.
C18_ValidationBeforeWork ==
    /\ (/\ probe.applied
        /\ \/ \A n \in probe.products : strip(n) = <<>>
           \/ DateLt(probe.end, probe.start))
       => /\ probe.out.raised
          /\ probe.out.frame = {}
          /\ probe.out.queries = {}
    /\ (resp.endpoint = "forecast" /\ DateLt(probe.end, probe.start))
       => /\ resp.status = 400
          /\ ~call.selected
          /\ _models = [seed |-> {}, live |-> {}]

\* An inverted range with a valid product list and an engine: the grid call
\* raised, and the request was answered 400.
C18_InvertedRangeRejected ==
    /\ probe.applied
    /\ DateLt(probe.end, probe.start)
    /\ <<"A">> \in probe.products
    /\ probe.engine # {}
    /\ probe.out.raised
    /\ resp.endpoint = "forecast"
    /\ resp.status = 400

\* C19: calendar_grid returns one row per (product, date) pair: as many rows
\* as there are distinct trimmed non-blank product names times days in
\* [start, end], every pair once, whatever the enrichment tables hold and
\* whether or not the enrichment queries answer.
C19_OneRowPerPair ==
    LET names == {strip(n) : n \in probe.products} \ {<<>>}
        days == toordinal(probe.end) - toordinal(probe.start) + 1
    IN  (probe.applied /\ names # {} /\ DateLe(probe.start, probe.end)) =>
            /\ ~probe.out.raised
            /\ Cardinality(probe.out.frame) = Cardinality(names) * days
            /\ \A r \in probe.out.frame :
                  /\ r.product_name \in names
                  /\ DateLe(probe.start, r.date) /\ DateLe(r.date, probe.end)
            /\ \A r1, r2 \in probe.out.frame :
                  (r1.product_name = r2.product_name /\ r1.date = r2.date) => r1 = r2
            /\ \A n \in names : \A r \in probe.out.frame :
                  \E r2 \in probe.out.frame :
                      r2.product_name = n /\ r2.date = r.date

\* Four names that clean to two, over three days, with discounts and basket
\* records found: six rows.
C19_TwoNamesThreeDays ==
    /\ probe.applied
    /\ Cardinality(probe.products) = 4
    /\ probe.start = Target /\ probe.end = ThirdDay
    /\ Cardinality(probe.out.frame) = 6
    /\ \E r \in probe.out.frame : r.discount.has_active_discount = 1
    /\ \E r \in probe.out.frame : r.basket.basket_association_count > 0

\* C21: every slot of the model cache starts empty and holds at most one
\* model; a slot is filled only by a request; a slot that holds a model
\* changes only in a train request for the mode of that slot, and a train
\* request leaves the slot of the other mode as it is.
C21_SlotChangesOnlyByOwnTrain ==
    /\ \A m \in Modes : _models[m] = {}
    /\ [][\A m \in Modes :
            /\ Cardinality(_models'[m]) <= 1
            /\ _models'[m] # _models[m] => (resp = NoResponse /\ resp' # NoResponse)
            /\ (_models[m] # {} /\ _models'[m] # _models[m]) =>
                  (resp'.endpoint = "train" /\ resp'.modeRequested = m)
            /\ (resp = NoResponse /\ resp'.endpoint = "train" /\ resp'.modeRequested # m) =>
                  _models'[m] = _models[m]]_vars

\* A second seed training has replaced the seed slot, while the live slot
\* still holds the artifact a forecast loaded from disk.
C21_SeedRetrainedLiveKept ==
    /\ resp.endpoint = "train"
    /\ resp.modeRequested = "seed"
    /\ \E x \in _models["seed"] : x.run = 2
    /\ \E x \in _models["live"] : x.run = 0

\* C22: under every interleaving of training runs, two runs of one mode
\* included, a reader that opens an artifact at its final path finds no file
\* or one complete artifact written by a single run.
C22_ReaderSeesCompleteArtifact ==
    \A c \in probe.seen : \E r \in 0..MaxWriters : c = complete(r)

\* C23: over every interleaving of _get_engine calls the engine is created
\* at most once; the calls that return a handle return the same handle; after
\* a failed creation there is no second attempt and the handle stays None.
C23_EngineInitializedOnce ==
    /\ probe.created + probe.failed <= 1
    /\ \A t1, t2 \in 1..MaxCallers : \A h1 \in probe.result[t1], h2 \in probe.result[t2] :
          h1 = h2
    /\ probe.failed > 0 => probe._ENGINE = -1

\* C24: with day_fraction = 0, model_pred > 0 and partial_units <= model_pred
\* the confidence equals the base confidence; with day_fraction x ACCEL >= 1
\* it is 0; for fixed model_pred and partial_units it never increases as
\* day_fraction increases.
C24_ConfidenceTracksModelShare ==
    probe.applied =>
        \A b \in probe.base_conf :
            /\ (/\ probe.frac = R0
                /\ RLt(R0, probe.model_pred)
                /\ RLe(probe.partial_units, probe.model_pred))
               => probe.confidence = {b}
            /\ RLe(R1, RMul(probe.frac, INTRADAY_WEIGHT_ACCEL)) => probe.confidence = {R0}
            /\ \A c1 \in probe.confidence, c2 \in probe.confidence_later : RLe(c2, c1)

\* C30: with day_fraction = 0 the weight is 0 and eod = max(model_pred,
\* partial_units); with day_fraction x ACCEL >= 1 the weight is 1 and eod =
\* partial_units / day_fraction; with day_fraction = 1 eod = partial_units;
\* the divisor is at least MIN_FRACTION > 0.
C30_BlendLimits ==
    probe.applied =>
        /\ probe.frac = R0 =>
              /\ probe.w = R0
              /\ probe.eod_units = RMax(probe.model_pred, probe.partial_units)
        /\ RLe(R1, RMul(probe.frac, INTRADAY_WEIGHT_ACCEL)) =>
              /\ probe.w = R1
              /\ probe.eod_units = RDiv(probe.partial_units, probe.frac)
        /\ probe.frac = R1 => probe.eod_units = probe.partial_units
        /\ RLe(INTRADAY_MIN_FRAC, probe.eff_frac)
        /\ RLt(R0, INTRADAY_MIN_FRAC)

\* C25: make_features returns X and y of the length of the input, row i of
\* both made from raw row i (its trimmed name, the calendar fields of its
\* date, its units); every target value is an integer >= 0, and is 0 where
\* the raw units are non-numeric or negative; the caller's frame still has
\* its columns and its rows.
C25_AlignedTargetAndUntouchedInput ==
    (probe.applied /\ ~probe.out.raised) =>
        /\ Len(probe.out.X) = Len(probe.df)
        /\ Len(probe.out.y) = Len(probe.df)
        /\ \A i \in 1..Len(probe.df) :
              LET raw == probe.df[i]
              IN  /\ probe.out.X[i].product_name = strip(raw.product_name)
                  /\ probe.out.X[i].calendar.day = raw.date[3]
                  /\ probe.out.y[i] \in Nat
                  /\ (raw.units.t = "number" /\ raw.units.v[2] = 1 /\ raw.units.v[1] >= 0)
                        => probe.out.y[i] = raw.units.v[1]
                  /\ (raw.units.t = "number" /\ raw.units.v[1] < 0) => probe.out.y[i] = 0
                  /\ (raw.units.t = "none" \/ raw.units.s = <<"x">>) => probe.out.y[i] = 0
        /\ probe.out.df = [columns |-> <<"product_name", "date", "units">>,
                           rows |-> probe.df]

\* A frame of two rows, a padded name and negative units in the first, an
\* integer in the second, has been turned into X and y.
C25_ReturnAndPaddedName ==
    /\ probe.applied
    /\ ~probe.out.raised
    /\ Len(probe.df) = 2
    /\ probe.df[1].product_name = <<" ", "B">>
    /\ probe.df[1].units.v = RInt(-2)
    /\ probe.df[2].units.v = RInt(3)
    /\ probe.out.y = <<0, 3>>

\* C26: under any interleaving of a forecast with a train request, the model
\* a forecast predicts with and the metadata it uses come from the same
\* training run.
C26_ModelAndMetaOfOneRun ==
    (probe.forecast.pc = "done" /\ probe.forecast.status = 200) =>
        probe.forecast.meta = probe.forecast.model

\* C27: mode=live returns the live model when one is loaded and the seed
\* model otherwise, and the returned mode_used and path name the cache slot
\* the returned model object came from, also when the live slot is loaded or
\* replaced while _select_model runs.
C27_ModeUsedNamesTheSlot ==
    (probe.forecast.pc = "done" /\ probe.forecast.status = 200) =>
        /\ probe.forecast.mode_used = probe.forecast.slot
        /\ probe.forecast.path = model_path_of(probe.forecast.slot)
        /\ probe.forecast.mode = "seed" => probe.forecast.slot = "seed"

\* C28: train, valid and test of _time_split are pairwise disjoint and
\* together hold every input row once; every train date <= every valid date
\* <= every test date; train is not empty; for n >= 10 the sizes are
\* floor(0.6 n), floor(0.2 n) and the remainder; for n < 10 test is empty and
\* train has max(1, floor(0.8 n)) rows.
C28_ChronologicalPartition ==
    probe.applied =>
        LET n == Len(probe.df_xy)
            train == probe.out.train
            valid == probe.out.valid
            test == probe.out.test
            whole == train \o valid \o test
        IN  /\ Len(whole) = n
            /\ Range(whole) = Range(probe.df_xy)
            /\ \A i, j \in 1..Len(whole) : whole[i] = whole[j] => i = j
            /\ \A a \in Range(train), b \in Range(valid) \cup Range(test) :
                  DateLe(a.date, b.date)
            /\ \A a \in Range(valid), b \in Range(test) : DateLe(a.date, b.date)
            /\ Len(train) >= 1
            /\ n >= 10 =>
                  /\ 10 * Len(train) <= 6 * n /\ 6 * n < 10 * (Len(train) + 1)
                  /\ 10 * Len(valid) <= 2 * n /\ 2 * n < 10 * (Len(valid) + 1)
                  /\ Len(test) = n - Len(train) - Len(valid)
            /\ n < 10 =>
                  /\ test = <<>>
                  /\ \/ Len(train) = 1 /\ 8 * n < 20
                     \/ 10 * Len(train) <= 8 * n /\ 8 * n < 10 * (Len(train) + 1)

\* Eleven rows whose dates fall from row to row have been split 6 / 2 / 3,
\* the last input row first in train.
C28_ElevenRowsSplit ==
    /\ probe.applied
    /\ Len(probe.df_xy) = 11
    /\ Len(probe.out.train) = 6
    /\ Len(probe.out.valid) = 2
    /\ Len(probe.out.test) = 3
    /\ probe.out.train[1].id = 11

\* C29: the base confidence derived from metadata is max(0, 1 - MAPE) with
\* the recorded validation MAPE taken as a fraction, also where it exceeds
\* 1.0; a higher recorded MAPE never gives a higher base confidence.
C29_BaseConfidenceOfFraction ==
    probe.applied =>
        /\ \A x \in probe.meta : probe.base_conf = {RMax(R0, RSub(R1, x.mape))}
        /\ \A b \in probe.base_conf, c \in probe.base_conf_worse : RLe(c, b)

====
